---- MODULE Spec2Model ----
(***************************************************************************)
(* Helix: the execution gate (safety validator, directory sandbox and      *)
(* command executor).  Strings are sequences of one-character strings, so  *)
(* that lower-casing, trimming, substring search and the regular           *)
(* expressions are computed as the Go code computes them.                  *)
(***************************************************************************)
EXTENDS Integers, Sequences, FiniteSets, TLC

VARIABLES pkg, mockMode, execConfig, sandbox, cwd, last,
          rs, vectorStore, indexer, disk, goroutines, run, index, mu

vars == <<pkg, mockMode, execConfig, sandbox, cwd, last,
          rs, vectorStore, indexer, disk, goroutines, run, index, mu>>

\* the variables of the documentation retrieval (RAG)
ragVars == <<rs, vectorStore, indexer, disk, goroutines, run, index, mu>>

(***************************************************************************)
(* package strings: the functions of the Go standard library that the      *)
(* code calls.                                                             *)
(***************************************************************************)
UpperLetters == <<"A","B","C","D","E","F","G","H","I","J","K","L","M","N","O","P","Q","R","S","T","U","V","W","X","Y","Z">>

LowerLetters == <<"a","b","c","d","e","f","g","h","i","j","k","l","m","n","o","p","q","r","s","t","u","v","w","x","y","z">>

\* the character `, which cannot be written in a string of this language
Backtick == "backtick"

\* unicode.IsSpace restricted to ASCII
Whitespace == {" ", "\t", "\n", "\r"}

LetterIndex(letters, c) == CHOOSE k \in 1..Len(letters) : letters[k] = c

IsUpper(c) == \E k \in 1..Len(UpperLetters) : UpperLetters[k] = c

IsLower(c) == \E k \in 1..Len(LowerLetters) : LowerLetters[k] = c

LowerChar(c) == IF IsUpper(c) THEN LowerLetters[LetterIndex(UpperLetters, c)] ELSE c

UpperChar(c) == IF IsLower(c) THEN UpperLetters[LetterIndex(LowerLetters, c)] ELSE c

\* strings.ToLower
ToLower(s) == [i \in 1..Len(s) |-> LowerChar(s[i])]

SetMin(S) == CHOOSE x \in S : \A y \in S : x <= y

SetMax(S) == CHOOSE x \in S : \A y \in S : y <= x

\* strings.Trim(s, cutset)
Trim(s, cutset) ==
    LET keep == {i \in 1..Len(s) : s[i] \notin cutset}
    IN  IF keep = {} THEN <<>> ELSE SubSeq(s, SetMin(keep), SetMax(keep))

\* strings.TrimSpace
TrimSpace(s) == Trim(s, Whitespace)

\* strings.Contains
Contains(s, substr) ==
    \E i \in 0..(Len(s) - Len(substr)) : SubSeq(s, i + 1, i + Len(substr)) = substr

\* strings.HasPrefix
HasPrefix(s, prefix) ==
    Len(prefix) <= Len(s) /\ SubSeq(s, 1, Len(prefix)) = prefix

\* strings.TrimPrefix
TrimPrefix(s, prefix) ==
    IF HasPrefix(s, prefix) THEN SubSeq(s, Len(prefix) + 1, Len(s)) ELSE s

\* strings.Count for a one-character separator
Count(s, c) == Cardinality({i \in 1..Len(s) : s[i] = c})

\* strings.ReplaceAll(s, old, ""), old non-empty: non-overlapping, left to right
RECURSIVE RemoveAll(_, _)
RemoveAll(s, old) ==
    IF Len(s) < Len(old) THEN s
    ELSE IF HasPrefix(s, old) THEN RemoveAll(SubSeq(s, Len(old) + 1, Len(s)), old)
    ELSE <<s[1]>> \o RemoveAll(Tail(s), old)

\* the index of the first character of s that is in set, Len(s) + 1 if none
IndexAny(s, set) ==
    LET hits == {i \in 1..Len(s) : s[i] \in set}
    IN  IF hits = {} THEN Len(s) + 1 ELSE SetMin(hits)

\* strings.Split(s, sep) for a one-character separator: empty pieces are kept
RECURSIVE Split(_, _)
Split(s, sep) ==
    LET n == IndexAny(s, {sep})
    IN  IF n > Len(s) THEN <<s>>
        ELSE <<SubSeq(s, 1, n - 1)>> \o Split(SubSeq(s, n + 1, Len(s)), sep)

\* strings.Fields: the maximal runs of non-space characters
RECURSIVE Fields(_)
Fields(s) ==
    LET nonsp == {i \in 1..Len(s) : s[i] \notin Whitespace}
    IN  IF nonsp = {} THEN <<>>
        ELSE LET t == SubSeq(s, SetMin(nonsp), Len(s))
                 n == IndexAny(t, Whitespace)
             IN  <<SubSeq(t, 1, n - 1)>> \o Fields(SubSeq(t, n, Len(t)))

\* strings.Join(elems, sep)
RECURSIVE JoinStrings(_, _)
JoinStrings(elems, sep) ==
    IF elems = <<>> THEN <<>>
    ELSE IF Len(elems) = 1 THEN elems[1]
    ELSE elems[1] \o sep \o JoinStrings(Tail(elems), sep)

(***************************************************************************)
(* package regexp, for the patterns the code compiles: a pattern is a      *)
(* sequence of items, each a character class taken once or any number of   *)
(* times; x+ is written x x*.  A class is a set of characters or the       *)
(* complement of one.                                                      *)
(***************************************************************************)
InClass(c, class) == (c \in class.cs) # class.neg

One(cs) == <<[cs |-> cs, neg |-> FALSE, star |-> FALSE]>>

Star(cs) == <<[cs |-> cs, neg |-> FALSE, star |-> TRUE]>>

Plus(cs) == One(cs) \o Star(cs)

NotOne(cs) == <<[cs |-> cs, neg |-> TRUE, star |-> FALSE]>>

NotStar(cs) == <<[cs |-> cs, neg |-> TRUE, star |-> TRUE]>>

\* a literal, case-sensitive
Lit(s) == [i \in 1..Len(s) |-> [cs |-> {s[i]}, neg |-> FALSE, star |-> FALSE]]

\* a literal under the (?i) flag
LitFold(s) ==
    [i \in 1..Len(s) |-> [cs |-> {LowerChar(s[i]), UpperChar(s[i])}, neg |-> FALSE, star |-> FALSE]]

\* the letters lo..hi of a range such as [c-z], with both cases under (?i)
LetterRange(lo, hi, fold) ==
    LET ks == LetterIndex(LowerLetters, lo)..LetterIndex(LowerLetters, hi)
    IN  {LowerLetters[k] : k \in ks} \cup (IF fold THEN {UpperLetters[k] : k \in ks} ELSE {})

RECURSIVE MatchAt(_, _, _, _)
MatchAt(s, i, pat, j) ==
    IF j > Len(pat) THEN TRUE
    ELSE IF pat[j].star
         THEN \/ MatchAt(s, i, pat, j + 1)
              \/ i <= Len(s) /\ InClass(s[i], pat[j]) /\ MatchAt(s, i + 1, pat, j)
         ELSE i <= Len(s) /\ InClass(s[i], pat[j]) /\ MatchAt(s, i + 1, pat, j + 1)

\* Regexp.MatchString: the pattern matches somewhere in s
MatchString(pat, s) == \E i \in 1..(Len(s) + 1) : MatchAt(s, i, pat, 1)

(***************************************************************************)
(* Safety validator: the blocklist, the potentially-dangerous keywords and *)
(* the malicious-pattern regular expressions.                              *)
(***************************************************************************)
dangerousPatterns ==
    << <<"r","m"," ","-","r","f"," ","/">>, <<"r","m"," ","-","r","f"," ","/","*">>, <<"f","o","r","m","a","t"," ","c",":">>, <<"m","k","f","s">>, <<"f","d","i","s","k">>,
       <<"d","d"," ","i","f","=","/","d","e","v","/","z","e","r","o">>, <<">"," ","/","d","e","v","/","s","d","a">>, <<"c","h","m","o","d"," ","-","R"," ","7","7","7"," ","/">>,
       <<"m","v"," ","/"," ","/","d","e","v","/","n","u","l","l">>, <<">"," ","/","e","t","c","/","p","a","s","s","w","d">>, <<":","(",")","{"," ",":","|",":","&"," ","}",";",":">>,
       <<"f","o","r","k"," ","b","o","m","b">>, <<"d","e","b","u","g","f","s">>, <<"m","k","s","w","a","p">>, <<"s","w","a","p","o","f","f">>, <<">"," ","/","b","o","o","t">> >>

\* the patterns are compared as they are written; only the command is lower-cased
IsCommandSafe(command) ==
    LET cmdLower == ToLower(command)
    IN  IF \E k \in 1..Len(dangerousPatterns) : Contains(cmdLower, dangerousPatterns[k])
        THEN FALSE
        ELSE IF Contains(cmdLower, <<"r","m"," ","-","r","f">>) /\ Contains(cmdLower, <<"h","o","m","e">>)
        THEN TRUE
        ELSE TRUE

dangerousKeywords ==
    << <<"r","m"," ","-","r","f">>, <<"c","h","m","o","d">>, <<"c","h","o","w","n">>, <<"m","v"," ">>, <<"d","d"," ">>, <<"f","o","r","m","a","t">>,
       <<"f","d","i","s","k">>, <<"m","k","f","s">>, <<">"," ">>, <<">",">"," ">>, <<"c","u","r","l"," ","|"," ","s","h">>, <<"w","g","e","t"," ","|"," ","s","h">> >>

isPotentiallyDangerous(command) ==
    LET cmdLower == ToLower(command)
    IN  \E k \in 1..Len(dangerousKeywords) : Contains(cmdLower, dangerousKeywords[k])

\* AskForConfirmation, given the word the user types
AskForConfirmation(response) ==
    LET r == ToLower(TrimSpace(response))
    IN  r = <<"y">> \/ r = <<"y","e","s">>

\* the four compiled patterns of ValidateCommand, in the order of the code
maliciousPatterns ==
    << LitFold(<<"r","m">>) \o Plus(Whitespace) \o LitFold(<<"-","r","f">>) \o Plus(Whitespace)
           \o Lit(<<"/">>) \o Star(Whitespace),
       LitFold(<<"f","o","r","m","a","t">>) \o Plus(Whitespace) \o One(LetterRange("c", "z", TRUE))
           \o Lit(<<":">>),
       LitFold(<<"d","d">>) \o Plus(Whitespace) \o LitFold(<<"i","f","=","/","d","e","v","/","z","e","r","o">>),
       Lit(<<">",":","\\">>) \o Star({"s"}) \o Lit(<<"/","d","e","v","/","s","d">>)
           \o One(LetterRange("a", "z", FALSE)) >>

\* errors are chains of messages, outermost first; nil is the empty chain
Nil == <<>>

Errorf(msg) == <<msg>>

Wrap(msg, err) == <<msg>> \o err

\* utils.ValidateCommand
ValidateCommand(command) ==
    IF TrimSpace(command) = <<>> THEN Errorf("empty command")
    ELSE IF \E k \in 1..Len(maliciousPatterns) : MatchString(maliciousPatterns[k], command)
    THEN Errorf("command contains dangerous pattern")
    ELSE Nil

\* the prefixes that package main's ValidateAndCleanCommand strips, in order
aiPrefixes ==
    << <<"C","o","m","m","a","n","d",":">>, <<"H","e","r","e","'","s"," ","t","h","e"," ","c","o","m","m","a","n","d",":">>, <<"T","h","e"," ","c","o","m","m","a","n","d"," ","i","s",":">>,
       <<"b","a","s","h",":">>, <<"s","h","e","l","l",":">>, <<"$">>, <<">">> >>

RECURSIVE StripPrefixes(_, _)
StripPrefixes(command, k) ==
    IF k > Len(aiPrefixes) THEN command
    ELSE IF HasPrefix(command, aiPrefixes[k])
    THEN StripPrefixes(TrimSpace(TrimPrefix(command, aiPrefixes[k])), k + 1)
    ELSE StripPrefixes(command, k + 1)

\* package main's ValidateAndCleanCommand: [command, err]
MainValidateAndCleanCommand(command) ==
    LET c1 == TrimSpace(command)
        c2 == RemoveAll(RemoveAll(c1, <<Backtick>>), <<Backtick,Backtick,Backtick>>)
        c3 == RemoveAll(RemoveAll(c2, <<"*","*">>), <<"*">>)
        c4 == Trim(c3, {"\"", "'"})
        c5 == StripPrefixes(c4, 1)
        c6 == IF Contains(c5, <<"\n">>) THEN TrimSpace(Split(c5, "\n")[1]) ELSE c5
    IN  IF c5 = <<>> THEN [command |-> <<>>, err |-> Errorf("empty command after cleaning")]
        ELSE IF ValidateCommand(c6) # Nil THEN [command |-> <<>>, err |-> ValidateCommand(c6)]
        ELSE [command |-> c6, err |-> Nil]

(***************************************************************************)
(* Command executor.  An outcome records the error returned, the commands  *)
(* handed to exec.Command and run (none or one), and whether the user was  *)
(* asked to confirm.  response is what the user would type at a prompt,    *)
(* runOk whether the subprocess exits with status 0.                       *)
(***************************************************************************)
Outcome(err, spawned, asked) == [err |-> err, spawned |-> spawned, asked |-> asked]

\* a tail that asks and spawns whatever the answer is
ConfirmAndRunAnyway(command, config, response, runOk) ==
    Outcome(IF runOk THEN Nil ELSE Errorf("command execution failed"), <<command>>,
            ~config.AutoConfirm /\ isPotentiallyDangerous(command))

\* the tail of both ExecuteCommand functions: confirmation, then the spawn
ConfirmAndRun(command, config, response, runOk) ==
    IF ~config.AutoConfirm /\ isPotentiallyDangerous(command)
    THEN IF ~AskForConfirmation(response)
         THEN Outcome(Errorf("command cancelled by user"), <<>>, TRUE)
         ELSE Outcome(IF runOk THEN Nil ELSE Errorf("command execution failed"),
                      <<command>>, TRUE)
    ELSE Outcome(IF runOk THEN Nil ELSE Errorf("command execution failed"),
                 <<command>>, FALSE)

\* ExecuteCommandConfirmFirst asks for the confirmation before the blocklist check
ExecuteCommandConfirmFirst(command, config, response, runOk) ==
    LET c == TrimSpace(command)
    IN  IF c = <<>> THEN Outcome(Errorf("empty command"), <<>>, FALSE)
        ELSE IF ~config.AutoConfirm /\ isPotentiallyDangerous(c) /\ AskForConfirmation(response)
        THEN Outcome(IF runOk THEN Nil ELSE Errorf("command execution failed"), <<c>>, TRUE)
        ELSE IF config.SafeMode /\ ~IsCommandSafe(c)
        THEN Outcome(Errorf("command blocked for safety"), <<>>, FALSE)
        ELSE ConfirmAndRun(c, config, response, runOk)

\* package commands' ExecuteCommand
ExecuteCommand(command, config, response, runOk) ==
    LET c == TrimSpace(command)
        singleQuotes == Count(c, "'")
        doubleQuotes == Count(c, "\"")
    IN  IF c = <<>> THEN Outcome(Errorf("empty command"), <<>>, FALSE)
        ELSE IF config.SafeMode /\ ~IsCommandSafe(c)
        THEN Outcome(Errorf("command blocked for safety"), <<>>, FALSE)
        ELSE IF \/ (singleQuotes % 2 # 0 /\ singleQuotes > 1)
                \/ (doubleQuotes % 2 # 0 /\ doubleQuotes > 1)
        THEN Outcome(Errorf("command has unbalanced quotes"), <<>>, FALSE)
        ELSE \* DryRun changes the label that is printed and nothing else
             ConfirmAndRun(c, config, response, runOk)

\* package main's ExecuteCommand
MainExecuteCommand(command, config, response, runOk) ==
    LET cleaned == MainValidateAndCleanCommand(command)
        c == TrimSpace(cleaned.command)
    IN  IF cleaned.err # Nil
        THEN Outcome(Wrap("command validation failed", cleaned.err), <<>>, FALSE)
        ELSE IF c = <<>> THEN Outcome(Errorf("empty command"), <<>>, FALSE)
        ELSE IF config.SafeMode /\ ~IsCommandSafe(c)
        THEN Outcome(Errorf("command blocked for safety"), <<>>, FALSE)
        ELSE IF config.DryRun THEN Outcome(Nil, <<>>, FALSE)
        ELSE ConfirmAndRun(c, config, response, runOk)

(***************************************************************************)
(* package path/filepath on Unix.                                          *)
(***************************************************************************)
Sep == <<"/">>

IsAbs(path) == HasPrefix(path, Sep)

\* the non-empty elements between the separators
PathElems(path) == SelectSeq(Split(path, "/"), LAMBDA e : e # <<>>)

RECURSIVE CleanElems(_, _, _)
CleanElems(elems, rooted, out) ==
    IF elems = <<>> THEN out
    ELSE LET e == Head(elems)
         IN  IF e = <<".">> THEN CleanElems(Tail(elems), rooted, out)
             ELSE IF e = <<".",".">>
             THEN IF out # <<>> /\ out[Len(out)] # <<".",".">>
                  THEN CleanElems(Tail(elems), rooted, SubSeq(out, 1, Len(out) - 1))
                  ELSE IF rooted THEN CleanElems(Tail(elems), rooted, out)
                  ELSE CleanElems(Tail(elems), rooted, Append(out, e))
             ELSE CleanElems(Tail(elems), rooted, Append(out, e))

\* filepath.Clean
Clean(path) ==
    LET out == CleanElems(PathElems(path), IsAbs(path), <<>>)
    IN  IF IsAbs(path) THEN Sep \o JoinStrings(out, Sep)
        ELSE IF out = <<>> THEN <<".">>
        ELSE JoinStrings(out, Sep)

\* filepath.Join of two elements: empty elements are ignored
Join(a, b) ==
    IF a = <<>> /\ b = <<>> THEN <<>>
    ELSE IF a = <<>> THEN Clean(b)
    ELSE IF b = <<>> THEN Clean(a)
    ELSE Clean(a \o Sep \o b)

\* the length of the longest common prefix of two sequences
RECURSIVE CommonPrefixLen(_, _)
CommonPrefixLen(s, t) ==
    IF s = <<>> \/ t = <<>> \/ Head(s) # Head(t) THEN 0
    ELSE 1 + CommonPrefixLen(Tail(s), Tail(t))

\* filepath.Rel: [path, err], err TRUE when targpath cannot be made relative
Rel(basepath, targpath) ==
    LET base == Clean(basepath)
        targ == Clean(targpath)
        b == PathElems(IF base = <<".">> THEN <<>> ELSE base)
        t == PathElems(targ)
        n == CommonPrefixLen(b, t)
        brest == SubSeq(b, n + 1, Len(b))
        trest == SubSeq(t, n + 1, Len(t))
    IN  IF targ = base THEN [path |-> <<".">>, err |-> FALSE]
        ELSE IF IsAbs(base) # IsAbs(targ) THEN [path |-> <<>>, err |-> TRUE]
        ELSE IF brest # <<>> /\ brest[1] = <<".",".">> THEN [path |-> <<>>, err |-> TRUE]
        ELSE [path |-> JoinStrings([i \in 1..Len(brest) |-> <<".",".">>] \o trest, Sep),
              err  |-> FALSE]

(***************************************************************************)
(* Directory sandbox.  ds is the DirectorySandbox record.                  *)
(***************************************************************************)
SandboxModes == {"SandboxDisabled", "SandboxCurrentDir", "SandboxStrict"}

\* the first expression of the code, \s/(?:[^/]\S*)?, is listed as its two
\* alternatives: without and with the optional group
absolutePathPatterns ==
    << One(Whitespace) \o Lit(Sep),
       One(Whitespace) \o Lit(Sep) \o NotOne({"/"}) \o NotStar(Whitespace),
       One(Whitespace) \o One(LetterRange("a", "z", TRUE)) \o Lit(<<":","\\">>),
       Lit(<<"r","m">>) \o Plus(Whitespace) \o Lit(<<"-","r","f">>) \o Plus(Whitespace) \o Lit(Sep),
       Lit(<<"c","h","m","o","d">>) \o Plus(Whitespace) \o NotStar({"\n"}) \o Plus(Whitespace) \o Lit(Sep),
       Lit(<<"c","h","o","w","n">>) \o Plus(Whitespace) \o NotStar({"\n"}) \o Plus(Whitespace) \o Lit(Sep) >>

containsAbsolutePathTraversal(command) ==
    \E k \in 1..Len(absolutePathPatterns) : MatchString(absolutePathPatterns[k], command)

escapePatterns ==
    << <<"c","d"," ",".",".">>, <<"c","d"," ",".",".","/">>, <<"c","d"," ",".",".","\\">>, <<"r","m"," ","-","r","f"," ",".",".","/">>, <<"r","m"," ","-","r","f"," ",".",".","\\">>,
       <<".",".","/">>, <<".",".","\\">> >>

safePatterns ==
    << <<"l","s">>, <<"f","i","n","d">>, <<"g","r","e","p">>, <<"c","a","t">>, <<"h","e","a","d">>, <<"t","a","i","l">>, <<"f","i","l","e">>,
       <<"s","t","a","t">>, <<"d","u">>, <<"d","f">>, <<"p","w","d">>, <<"e","c","h","o">>, <<"p","r","i","n","t">> >>

isJustChecking(command) ==
    \E k \in 1..Len(safePatterns) : HasPrefix(command, safePatterns[k])

\* every matching pattern is skipped when the command is just checking
containsDirectoryEscape(command) ==
    \E k \in 1..Len(escapePatterns) :
        Contains(command, escapePatterns[k]) /\ ~isJustChecking(command)

nonFilePatterns ==
    << <<"y","e","s">>, <<"n","o">>, <<"t","r","u","e">>, <<"f","a","l","s","e">>, <<"0">>, <<"1">>, <<"l","o","c","a","l","h","o","s","t">>,
       <<"1","2","7",".","0",".","0",".","1">>, <<"0",".","0",".","0",".","0">>, <<"h","t","t","p",":","/","/">>, <<"h","t","t","p","s",":","/","/">>, <<"f","t","p",":","/","/">> >>

isCommonNonFileArgument(arg) ==
    \E k \in 1..Len(nonFilePatterns) : Contains(arg, nonFilePatterns[k])

\* the words after the first that are neither flags nor common non-file arguments
extractFileArguments(command) ==
    LET words == Fields(command)
    IN  SelectSeq(SubSeq(words, 2, Len(words)),
                  LAMBDA word : ~HasPrefix(word, <<"-">>) /\ ~isCommonNonFileArgument(word))

\* isOutsideSandboxErrOnly reports a path as outside only when filepath.Rel fails
isOutsideSandboxErrOnly(ds, path) ==
    LET p0 == Clean(path)
        cleanPath == IF IsAbs(p0) THEN p0 ELSE Join(ds.allowedDir, p0)
    IN  Rel(ds.allowedDir, cleanPath).err

isOutsideSandbox(ds, path) ==
    LET p0 == Clean(path)
        cleanPath == IF IsAbs(p0) THEN p0 ELSE Join(ds.allowedDir, p0)
        rel == Rel(ds.allowedDir, cleanPath)
    IN  rel.err \/ HasPrefix(rel.path, <<".",".">>)

operatesOutsideCurrentDir(ds, command) ==
    LET args == extractFileArguments(command)
    IN  \E i \in 1..Len(args) : isOutsideSandbox(ds, args[i])

dangerousCommands ==
    << <<"r","m"," ","-","r","f">>, <<"c","h","m","o","d">>, <<"c","h","o","w","n">>, <<"m","v"," ">>, <<"c","p"," ">>, <<"d","d"," ">>,
       <<"f","o","r","m","a","t">>, <<"m","k","f","s">>, <<"f","d","i","s","k">> >>

containsDangerousExternalOperations(ds, command) ==
    \E k \in 1..Len(dangerousCommands) :
        Contains(command, dangerousCommands[k]) /\ operatesOutsideCurrentDir(ds, command)

Verdict(valid, reason) == [valid |-> valid, reason |-> reason]

\* DirectorySandbox.ValidateCommand
SandboxValidateCommand(ds, command) ==
    LET c == ToLower(command)
    IN  IF ds.mode = "SandboxDisabled" THEN Verdict(TRUE, "")
        ELSE IF containsAbsolutePathTraversal(c)
        THEN Verdict(FALSE, "Command contains absolute path traversal")
        ELSE IF containsDirectoryEscape(c)
        THEN Verdict(FALSE, "Command attempts to escape sandbox directory")
        ELSE IF containsDangerousExternalOperations(ds, c)
        THEN Verdict(FALSE, "Command performs dangerous operations outside sandbox")
        ELSE Verdict(TRUE, "")


(***************************************************************************)
(* package rag: the manual pages, the vector store and the files the two   *)
(* keep under ~/.helix.                                                    *)
(***************************************************************************)
MANPage(name, description, synopsis, options, examples) ==
    [Name |-> name, Description |-> description, Synopsis |-> synopsis,
     Options |-> options, Examples |-> examples]

\* manual pages as the indexer parses them; the page of xcmd has no text, so
\* its description is empty
pageLs ==
    MANPage(<<"l","s">>, <<"l","i","s","t"," ","d","i","r","e","c","t","o","r","y"," ","c","o","n","t","e","n","t","s">>, <<"l","s"," ","[","O","P","T","I","O","N","]",".",".","."," ","[","F","I","L","E","]",".",".",".">>,
            << <<"-","a">>, <<"-","l">>, <<"-","h">>, <<"-","r">>, <<"-","t">>, <<"-","R">> >>,
            << <<"l","s"," ","-","l">>, <<"l","s"," ","-","a">>, <<"l","s"," ","-","l","h"," ","/","t","m","p">> >>)

pageCp ==
    MANPage(<<"c","p">>, <<"c","o","p","y"," ","f","i","l","e","s"," ","a","n","d"," ","d","i","r","e","c","t","o","r","i","e","s">>, <<"c","p"," ","S","O","U","R","C","E"," ","D","E","S","T">>,
            << <<"-","r">>, <<"-","i">> >>, << <<"c","p"," ","a"," ","b">> >>)

pageMv == MANPage(<<"m","v">>, <<"m","o","v","e"," ","(","r","e","n","a","m","e",")"," ","f","i","l","e","s">>, <<>>, <<>>, <<>>)

pageCat ==
    MANPage(<<"c","a","t">>, <<"c","o","n","c","a","t","e","n","a","t","e"," ","a","n","d"," ","p","r","i","n","t"," ","f","i","l","e","s">>, <<"c","a","t"," ","[","F","I","L","E","]",".",".",".">>,
            << <<"-","n">> >>, << <<"c","a","t"," ","a">>, <<"c","a","t"," ","a"," ","b">> >>)

pageXcmd == MANPage(<<"x","c","m","d">>, <<>>, <<>>, <<>>, <<>>)

\* VectorDocument with its Metadata, and its zero value
VectorDocument(id, content, command, section, description, options, examples) ==
    [ID |-> id, Content |-> content,
     Metadata |-> [Command |-> command, Section |-> section, Description |-> description,
                   Options |-> options, Examples |-> examples]]

NoDocument == VectorDocument(<<>>, <<>>, <<>>, "", <<>>, <<>>, <<>>)

createCommandDocument(page) ==
    VectorDocument(page.Name \o <<"-","c","o","m","m","a","n","d">>,
                   <<"c","o","m","m","a","n","d"," ">> \o page.Name \o <<":"," ">> \o page.Description,
                   page.Name, "command", page.Description, <<>>, <<>>)

createDescriptionDocument(page) ==
    IF page.Description = <<>> THEN NoDocument
    ELSE VectorDocument(page.Name \o <<"-","d","e","s","c","r","i","p","t","i","o","n">>, page.Description,
                        page.Name, "description", <<>>, <<>>, <<>>)

createOptionsDocument(page) ==
    IF Len(page.Options) = 0 THEN NoDocument
    ELSE VectorDocument(page.Name \o <<"-","o","p","t","i","o","n","s">>,
                        <<"o","p","t","i","o","n","s"," ","f","o","r"," ">> \o page.Name \o <<":"," ">>
                            \o JoinStrings(page.Options, <<" ","|"," ">>),
                        page.Name, "options", <<>>, page.Options, <<>>)

createExamplesDocument(page) ==
    IF Len(page.Examples) = 0 THEN NoDocument
    ELSE VectorDocument(page.Name \o <<"-","e","x","a","m","p","l","e","s">>,
                        <<"e","x","a","m","p","l","e","s"," ","f","o","r"," ">> \o page.Name \o <<":"," ">>
                            \o JoinStrings(page.Examples, <<" ","|"," ">>),
                        page.Name, "examples", <<>>, <<>>, page.Examples)

createSynopsisDocument(page) ==
    IF page.Synopsis = <<>> THEN NoDocument
    ELSE VectorDocument(page.Name \o <<"-","s","y","n","o","p","s","i","s">>, page.Synopsis,
                        page.Name, "synopsis", <<>>, <<>>, <<>>)

\* the documents of a page that have content
processMANPage(page) ==
    { doc \in { createCommandDocument(page), createDescriptionDocument(page),
                createOptionsDocument(page), createExamplesDocument(page),
                createSynopsisDocument(page) } : doc.Content # <<>> }

\* NewVectorStore.  documents is the map from ID to document, kept as the set
\* of its values: a page's documents are a function of the page, so two
\* documents with one ID are equal
NewVectorStore == [initialized |-> FALSE, documents |-> {}]

\* the inverted index of the store is the variable index, the set of the
\* pairs of a word and the ID of a document listed under it; mu is the
\* store's sync.RWMutex, here not held
Unlocked == [writer |-> FALSE, readers |-> 0]

(***************************************************************************)
(* Files.  A file is absent, or exists and holds a complete document, or   *)
(* exists and holds none: it was opened with O_TRUNC and the write has not *)
(* completed.                                                              *)
(***************************************************************************)
Absent == [exists |-> FALSE, content |-> {}]

Truncated == [exists |-> TRUE, content |-> {}]

\* os.ReadFile followed by json.Unmarshal succeeds
Readable(file) == file.exists /\ file.content # {}

DataOf(file) == CHOOSE data \in file.content : TRUE

indexVersion == <<"1",".","0">>

\* VectorStore.loadVectorIndex: a missing file is not an error and leaves the
\* store as it is
loadVectorIndex(vs, file) ==
    IF ~file.exists THEN [vs |-> vs, err |-> FALSE]
    ELSE IF ~Readable(file) THEN [vs |-> vs, err |-> TRUE]
    ELSE [vs |-> [initialized |-> TRUE, documents |-> vs.documents \cup DataOf(file)],
          err |-> FALSE]

\* RAGSystem.loadSystemState: the flag of the file is taken over before the
\* vector index is loaded
loadSystemState(r, vs, d) ==
    IF ~Readable(d.stateFile) THEN [ok |-> FALSE, rs |-> r, vs |-> vs]
    ELSE IF DataOf(d.stateFile).Version # indexVersion THEN [ok |-> FALSE, rs |-> r, vs |-> vs]
    ELSE IF ~DataOf(d.stateFile).Initialized
         THEN [ok |-> FALSE, rs |-> [r EXCEPT !.initialized = FALSE], vs |-> vs]
    ELSE [ok |-> ~loadVectorIndex(vs, d.vectorIndex).err,
          rs |-> [r EXCEPT !.initialized = TRUE],
          vs |-> loadVectorIndex(vs, d.vectorIndex).vs]

\* RAGSystem.tryLoadExistingIndex
tryLoadExistingIndex(vs, d) ==
    [ok |-> ~loadVectorIndex(vs, d.vectorIndex).err
            /\ loadVectorIndex(vs, d.vectorIndex).vs.initialized,
     vs |-> loadVectorIndex(vs, d.vectorIndex).vs]

\* the document RAGSystem.saveSystemState marshals
StateToSave(r, ix, vs) ==
    [Version |-> indexVersion, Initialized |-> r.initialized,
     TotalPages |-> Cardinality(ix.indexed), TotalCommands |-> Cardinality(vs.documents)]

\* RAGSystem.hasExistingState
hasExistingState(vs, d) == d.stateFile.exists \/ Cardinality(vs.documents) > 0

\* the first half of VectorStore.IndexMANPages: the pages are validated and
\* their documents added to the store
IndexMANPagesFails(pages) ==
    \/ pages = {}
    \/ {page \in pages : ~(page.Name = <<>> \/ page.Description = <<>>)} = {}

IndexedStore(vs, pages) ==
    [initialized |-> TRUE,
     documents |-> vs.documents \cup UNION {processMANPage(page) : page \in pages}]

\* NewSystem and NewMANIndexer; indexed is the map from name to page, kept as
\* the set of its pages
NewSystem == [initialized |-> FALSE]

NewMANIndexer == [indexed |-> {}]

\* the goroutines of the process: main, the one IndexAvailableManPages
\* starts for Initialize, and the one Initialize starts for the indexer.
\* stateData and indexData hold the bytes a save has marshalled and not yet
\* written; second is where a goroutine is that was started for Initialize
\* while the first was under way
Goroutines(main, initialize, ix) ==
    [main |-> main, Initialize |-> initialize, indexer |-> ix, stateData |-> {},
     indexData |-> {}, second |-> "none"]

\* RAGSystem.IndexAvailableManPages, called by a process that has just made
\* its RAGSystem: Initialize is started unless there is existing state
IndexAvailableManPages(vs, d) ==
    IF hasExistingState(vs, d) THEN Goroutines("running", "none", "idle")
    ELSE Goroutines("running", "start", "idle")

\* the hosts of the retrieval's specification: without manual pages, with
\* one page that has no description, and with described pages
Hosts == { {}, {pageXcmd}, {pageLs, pageXcmd}, {pageLs, pageCp} }

\* a run of MANIndexer.IndexAvailableManPages: where the call is (at) and the
\* error it returns, the names findMANPages has still to send and whether it
\* has returned, the two channels, the workers (how many are waiting to
\* receive, how many hold each page and wait to send it, how many have
\* returned), the WaitGroup's counter, the goroutine that closes resultChan,
\* the number of pages the call has put into the map, and the names the
\* workers have received from pageChan, in its order
Run(at, err, names, workers) ==
    [at |-> at, err |-> err, names |-> names, discovery |-> "running",
     pageChan |-> <<>>, pageClosed |-> FALSE,
     workers |-> workers, wg |-> workers.receiving, closer |-> "waiting",
     resultChan |-> <<>>, resultCloses |-> 0, processed |-> 0, handed |-> <<>>]

\* no call of it has been made
NoRun == Run("none", Nil, <<>>, [receiving |-> 0, sending |-> <<>>, returned |-> 0])

\* main up to the start of the background indexing, with the model loaded,
\* on a host with some manual pages and nothing yet in ~/.helix
InitRAG(hosts) ==
    /\ rs = NewSystem
    /\ vectorStore = NewVectorStore
    /\ indexer = NewMANIndexer
    /\ \E manPages \in hosts :
           disk = [stateFile |-> Absent, vectorIndex |-> Absent, tempFile |-> Absent,
                   manPages |-> manPages]
    /\ goroutines = IndexAvailableManPages(NewVectorStore, disk)
    /\ run = NoRun
    /\ index = {}
    /\ mu = Unlocked

(***************************************************************************)
(* Retrieval: the vector store's search and RAGSystem.Retrieve.            *)
(***************************************************************************)
\* VectorStore.tokenize with isStopWord, as the set of the tokens
tokenize(text) ==
    LET stopWords ==
            { <<"t","h","e">>, <<"a","n","d">>, <<"f","o","r">>, <<"w","i","t","h">>, <<"t","h","i","s">>, <<"t","h","a","t">>, <<"f","r","o","m">>, <<"a","r","e">>,
              <<"w","a","s">>, <<"w","e","r","e">>, <<"h","a","v","e">>, <<"h","a","s">>, <<"h","a","d">>, <<"w","i","l","l">>, <<"w","o","u","l","d">>,
              <<"c","o","u","l","d">>, <<"s","h","o","u","l","d">>, <<"c","a","n">>, <<"m","a","y">>, <<"m","i","g","h","t">>, <<"w","h","i","c","h">>, <<"w","h","a","t">>,
              <<"w","h","e","n">>, <<"w","h","e","r","e">>, <<"w","h","y">>, <<"h","o","w">>, <<"w","h","o">>, <<"w","h","o","m">>, <<"w","h","o","s","e">> }
        words == Fields(ToLower(text))
        trimmed == {Trim(words[i], {".", ",", "!", "?", ";", ":", "\"", "'", "(", ")",
                                    "[", "]", "{", "}"}) : i \in 1..Len(words)}
    IN  {word \in trimmed : Len(word) > 2 /\ word \notin stopWords}

\* the terms of VectorStore.Search that can raise a document's score above
\* zero: a query word in the inverted index, the two boosts, the exact
\* command, the command's name within the query and a query word within the
\* command's name
HasPositiveTerm(doc, query) ==
    LET queryLower == ToLower(query)
        cmdLower == ToLower(doc.Metadata.Command)
    IN  \/ tokenize(query) \cap tokenize(doc.Content) # {}
        \/ /\ Contains(queryLower, <<"l","i","s","t">>) /\ Contains(queryLower, <<"f","i","l","e">>)
           /\ cmdLower \in { <<"l","s">>, <<"f","i","n","d">>, <<"d","i","r">> }
        \/ /\ Contains(queryLower, <<"d","i","r","e","c","t","o","r","y">>) \/ Contains(queryLower, <<"f","o","l","d","e","r">>)
           /\ cmdLower \in { <<"l","s">>, <<"p","w","d">>, <<"d","i","r">> }
        \/ cmdLower = ToLower(TrimSpace(query))
        \/ Contains(queryLower, cmdLower)
        \/ \E word \in tokenize(query) : Contains(cmdLower, word)

\* removeDuplicates
RECURSIVE removeDuplicates(_)
removeDuplicates(slice) ==
    IF slice = <<>> THEN <<>>
    ELSE LET init == removeDuplicates(SubSeq(slice, 1, Len(slice) - 1))
             item == slice[Len(slice)]
         IN  IF \E i \in 1..Len(init) : init[i] = item THEN init ELSE Append(init, item)

\* the command's document of one section, or the zero value
SectionDocument(vs, command, section) ==
    LET docs == {doc \in vs.documents :
                     doc.Metadata.Command = command /\ doc.Metadata.Section = section}
    IN  IF docs = {} THEN NoDocument ELSE CHOOSE doc \in docs : TRUE

\* a GetCommandInfo that returns what it has collected, description or not
GetCommandInfoUnchecked(vs, command) ==
    LET info ==
            [Name |-> command,
             Description |-> SectionDocument(vs, command, "command").Metadata.Description,
             Synopsis |-> SectionDocument(vs, command, "synopsis").Content,
             Options |->
                 removeDuplicates(SectionDocument(vs, command, "options").Metadata.Options),
             Examples |->
                 removeDuplicates(SectionDocument(vs, command, "examples").Metadata.Examples)]
    IN  [info |-> info, err |-> ~vs.initialized]

\* VectorStore.GetCommandInfo: the error is "no information found" or "vector
\* store not initialized"
GetCommandInfo(vs, command) ==
    LET info ==
            [Name |-> command,
             Description |-> SectionDocument(vs, command, "command").Metadata.Description,
             Synopsis |-> SectionDocument(vs, command, "synopsis").Content,
             Options |->
                 removeDuplicates(SectionDocument(vs, command, "options").Metadata.Options),
             Examples |->
                 removeDuplicates(SectionDocument(vs, command, "examples").Metadata.Examples)]
    IN  [info |-> info, err |-> ~vs.initialized \/ info.Description = <<>>]

\* the sequences of at most n different elements of S
RECURSIVE Arrangements(_, _)
Arrangements(S, n) ==
    IF n = 0 THEN {<<>>}
    ELSE {<<>>} \cup UNION {{<<x>> \o rest : rest \in Arrangements(S \ {x}, n - 1)} : x \in S}

\* VectorStore.GetRelevantCommands: what it can return.  The scores are
\* floating-point sums and the order of equal scores and of the commands
\* follows Go's map iteration, so the result is any sequence of at most
\* maxResults commands that have a document with a positive term and
\* information
GetRelevantCommands(vs, query, maxResults) ==
    IF ~vs.initialized THEN {[commands |-> <<>>, err |-> TRUE]}
    ELSE LET scored == {doc.Metadata.Command :
                            doc \in {d \in vs.documents : HasPositiveTerm(d, query)}}
             known == {command \in scored : ~GetCommandInfo(vs, command).err}
         IN  {[commands |-> [i \in 1..Len(names) |-> GetCommandInfo(vs, names[i]).info],
               err |-> FALSE] : names \in Arrangements(known, maxResults)}

isCommonWord(word) ==
    \/ Len(word) < 2
    \/ word \in
         { <<"t","h","e">>, <<"a">>, <<"a","n">>, <<"a","n","d">>, <<"o","r">>, <<"b","u","t">>, <<"i","n">>, <<"o","n">>, <<"a","t">>,
           <<"t","o">>, <<"f","o","r">>, <<"o","f">>, <<"w","i","t","h">>, <<"b","y">>, <<"f","r","o","m">>, <<"u","p">>, <<"d","o","w","n">>,
           <<"h","o","w">>, <<"w","h","a","t">>, <<"w","h","e","n">>, <<"w","h","e","r","e">>, <<"w","h","y">>, <<"l","i","s","t">>, <<"s","h","o","w">>,
           <<"d","i","s","p","l","a","y">>, <<"f","i","n","d">>, <<"s","e","a","r","c","h">>, <<"g","e","t">>, <<"s","e","t">>, <<"c","r","e","a","t","e">>,
           <<"d","e","l","e","t","e">>, <<"r","e","m","o","v","e">>, <<"i","n","s","t","a","l","l">>, <<"u","p","d","a","t","e">>, <<"u","p","g","r","a","d","e">> }

looksLikeCommand(word) ==
    /\ ~(Len(word) > 20 \/ Len(word) < 2)
    /\ \A i \in 1..Len(word) : \/ IsLower(word[i])
                               \/ word[i] \in {"0", "1", "2", "3", "4", "5", "6", "7", "8", "9"}
                               \/ word[i] \in {"-", "."}

extractPotentialCommands(query) ==
    SelectSeq(Fields(ToLower(query)), LAMBDA word : ~isCommonWord(word) /\ looksLikeCommand(word))

isRelevantCommand(query, cmd) ==
    LET queryLower == ToLower(query)
        cmdLower == ToLower(cmd.Name)
    IN  /\ ~(HasPrefix(cmdLower, <<"g","i","t","-">>) /\ ~Contains(queryLower, <<"g","i","t">>))
        /\ ~(HasPrefix(cmdLower, <<"k","u","b","e","c","t","l">>) /\ ~Contains(queryLower, <<"k","u","b","e">>))
        /\ ~(/\ cmdLower \in { <<"k","i","l","l","a","l","l">>, <<"r","m">> }
             /\ ~Contains(queryLower, <<"k","i","l","l">>) /\ ~Contains(queryLower, <<"r","e","m","o","v","e">>))
        /\ ~(cmd.Description = <<>> \/ Len(cmd.Description) < 10)

\* RAGSystem.combineResults
RECURSIVE appendUnseen(_, _)
appendUnseen(combined, cmds) ==
    IF cmds = <<>> THEN combined
    ELSE appendUnseen(IF \E i \in 1..Len(combined) : combined[i].Name = cmds[1].Name
                      THEN combined ELSE Append(combined, cmds[1]),
                      Tail(cmds))

combineResults(exactMatches, relevant) ==
    LET combined == appendUnseen(appendUnseen(<<>>, exactMatches), relevant)
    IN  [Commands |-> combined, UsedRAG |-> Len(combined) > 0]

NoResult == [Commands |-> <<>>, UsedRAG |-> FALSE]

\* RAGSystem.Retrieve, given what GetRelevantCommands has returned
Retrieve(r, vs, query, found) ==
    IF ~r.initialized THEN NoResult
    ELSE IF found.err THEN NoResult
    ELSE LET potentialCommands == extractPotentialCommands(query)
             infos == [i \in 1..Len(potentialCommands) |->
                           GetCommandInfo(vs, potentialCommands[i])]
             answered == SelectSeq(infos, LAMBDA x : ~x.err)
             exactMatches == [i \in 1..Len(answered) |-> answered[i].info]
         IN  combineResults(exactMatches,
                            SelectSeq(found.commands, LAMBDA cmd : isRelevantCommand(query, cmd)))

\* the results a call of Retrieve can have
Retrieved(r, vs, query) ==
    IF ~r.initialized THEN {NoResult}
    ELSE {Retrieve(r, vs, query, found) : found \in GetRelevantCommands(vs, query, 3)}

(***************************************************************************)
(* The prompts: RAGSystem.EnhancePrompt and PromptBuilder.                 *)
(***************************************************************************)
\* strconv.Itoa, as fmt.Sprintf prints %d
RECURSIVE Itoa(_)
Itoa(n) ==
    LET digit == <<"0", "1", "2", "3", "4", "5", "6", "7", "8", "9">>
    IN  IF n < 10 THEN <<digit[n + 1]>> ELSE Itoa(n \div 10) \o <<digit[(n % 10) + 1]>>

\* strings.Index, counted from 1; 0 when substr does not occur
IndexString(s, substr) ==
    LET at == {i \in 1..(Len(s) - Len(substr) + 1) : SubSeq(s, i, i + Len(substr) - 1) = substr}
    IN  IF at = {} THEN 0 ELSE SetMin(at)

\* strings.Count for a non-empty substr: occurrences that do not overlap
RECURSIVE CountString(_, _)
CountString(s, substr) ==
    LET i == IndexString(s, substr)
    IN  IF i = 0 THEN 0
        ELSE 1 + CountString(SubSeq(s, i + Len(substr), Len(s)), substr)

\* the lines buildEnhancedPrompt writes for the commands from the i-th on
RECURSIVE CommandBlocks(_, _)
CommandBlocks(commands, i) ==
    IF i > Len(commands) THEN <<>>
    ELSE LET cmd == commands[i] IN
    <<"C","O","M","M","A","N","D"," ">> \o Itoa(i) \o <<":"," ">> \o cmd.Name \o <<"\n">>
    \o (IF cmd.Description # <<>> THEN <<"D","e","s","c","r","i","p","t","i","o","n",":"," ">> \o cmd.Description \o <<"\n">>
        ELSE <<>>)
    \o (IF cmd.Synopsis # <<>> THEN <<"U","s","a","g","e",":"," ">> \o cmd.Synopsis \o <<"\n">> ELSE <<>>)
    \o (IF Len(cmd.Options) > 0
        THEN <<"C","o","m","m","o","n"," ","O","p","t","i","o","n","s",":"," ">>
             \o (IF Len(cmd.Options) > 5
                 THEN JoinStrings(SubSeq(cmd.Options, 1, 5), <<","," ">>) \o <<".",".",".","\n">>
                 ELSE JoinStrings(cmd.Options, <<","," ">>) \o <<"\n">>)
        ELSE <<>>)
    \o (IF Len(cmd.Examples) > 0
        THEN <<"E","x","a","m","p","l","e","s",":"," ">>
             \o (IF Len(cmd.Examples) > 2
                 THEN JoinStrings(SubSeq(cmd.Examples, 1, 2), <<" ","|"," ">>) \o <<".",".",".","\n">>
                 ELSE JoinStrings(cmd.Examples, <<" ","|"," ">>) \o <<"\n">>)
        ELSE <<>>)
    \o <<"\n">>
    \o CommandBlocks(commands, i + 1)

buildEnhancedPrompt(userInput, originalPrompt, result) ==
    <<"A","D","D","I","T","I","O","N","A","L"," ","C","O","N","T","E","X","T"," ","F","R","O","M"," ","S","Y","S","T","E","M"," ","M","A","N","U","A","L"," ","P","A","G","E","S",":","\n">>
    \o <<"T","h","e"," ","f","o","l","l","o","w","i","n","g"," ","c","o","m","m","a","n","d"," ","i","n","f","o","r","m","a","t","i","o","n"," ","i","s"," ","a","v","a","i","l","a","b","l","e"," ","o","n"," ","t","h","i","s"," ","s","y","s","t","e","m",":","\n","\n">>
    \o CommandBlocks(result.Commands, 1)
    \o <<"O","R","I","G","I","N","A","L"," ","P","R","O","M","P","T",":","\n">>
    \o originalPrompt

\* an EnhancePrompt that builds its context whatever was retrieved
EnhancePromptAlwaysBuilds(r, userInput, originalPrompt, result) ==
    IF ~r.initialized \/ TrimSpace(userInput) = <<>> THEN originalPrompt
    ELSE buildEnhancedPrompt(userInput, originalPrompt, result)

\* RAGSystem.EnhancePrompt, given the result of Retrieve
EnhancePrompt(r, userInput, originalPrompt, result) ==
    IF ~r.initialized \/ TrimSpace(userInput) = <<>> THEN originalPrompt
    ELSE IF ~result.UsedRAG \/ Len(result.Commands) = 0 THEN originalPrompt
    ELSE buildEnhancedPrompt(userInput, originalPrompt, result)

\* PromptBuilder.buildOriginalCommandPrompt on Linux with bash; the twelve
\* rules between the first sentence and the request, a constant text, are
\* left out
buildOriginalCommandPrompt(userInput) ==
    <<"Y","o","u"," ","a","r","e"," ","H","e","l","i","x",","," ","a","n"," ","a","d","v","a","n","c","e","d"," ","C","L","I"," ","a","s","s","i","s","t","a","n","t","."," ","C","o","n","v","e","r","t"," ","t","h","e"," ","u","s","e","r","'","s"," ","n","a","t","u","r","a","l"," ","l","a","n","g","u","a","g","e"," ","r","e","q","u","e","s","t"," ","i","n","t","o"," ","a"," ","s","i","n","g","l","e",","," ","s","a","f","e",","," ","f","u","l","l","y"," ","e","x","e","c","u","t","a","b","l","e"," ","s","h","e","l","l"," ","c","o","m","m","a","n","d"," ","f","o","r"," ","l","i","n","u","x"," ","(","b","a","s","h",")",".","\n","\n">>
    \o <<"U","s","e","r"," ","r","e","q","u","e","s","t",":"," ">> \o userInput \o <<"\n","\n","C","o","m","m","a","n","d",":">>

\* PromptBuilder.BuildCommandPrompt; hasRag says that the builder was made
\* with a RAGSystem
BuildCommandPrompt(hasRag, r, userInput, result) ==
    LET originalPrompt == buildOriginalCommandPrompt(userInput)
        enhancedPrompt == EnhancePrompt(r, userInput, originalPrompt, result)
        cut == IndexString(enhancedPrompt, <<"O","R","I","G","I","N","A","L"," ","P","R","O","M","P","T",":">>)
        ragSection == IF cut = 0 THEN enhancedPrompt ELSE SubSeq(enhancedPrompt, 1, cut - 1)
    IN  IF ~(hasRag /\ r.initialized) THEN originalPrompt
        ELSE IF enhancedPrompt # originalPrompt /\ CountString(ragSection, <<"C","O","M","M","A","N","D"," ">>) > 0
        THEN enhancedPrompt
        ELSE originalPrompt
(***************************************************************************)
(* VectorStore.Search.  A score is a float32; it is kept here in            *)
(* thousandths, rounded down.                                              *)
(***************************************************************************)
pageRm ==
    MANPage(<<"r","m">>, <<"r","e","m","o","v","e"," ","f","i","l","e","s"," ","o","r"," ","d","i","r","e","c","t","o","r","i","e","s">>, <<"r","m"," ","[","O","P","T","I","O","N","]",".",".","."," ","[","F","I","L","E","]",".",".",".">>,
            << <<"-","f">>, <<"-","r">> >>, << <<"r","m"," ","a">> >>)

\* VectorStore.tokenize, as the slice it returns
tokenizeSlice(text) ==
    LET words == Fields(ToLower(text))
    IN  SelectSeq([i \in 1..Len(words) |->
                       Trim(words[i], {".", ",", "!", "?", ";", ":", "\"", "'", "(", ")",
                                       "[", "]", "{", "}"})],
                  LAMBDA word : word \in tokenize(text))

\* how often addToIndex has put the document under the word
Occurrences(doc, word) ==
    Len(SelectSeq(tokenizeSlice(doc.Content), LAMBDA token : token = word))

\* len(vs.index[word])
RECURSIVE Postings(_, _)
Postings(documents, word) ==
    IF documents = {} THEN 0
    ELSE LET doc == CHOOSE d \in documents : TRUE
         IN  Occurrences(doc, word) + Postings(documents \ {doc}, word)

\* math.Log of 1, 2, ..., in thousandths
LnMilli ==
    << 0, 693, 1099, 1386, 1609, 1792, 1946, 2079, 2197, 2303, 2398, 2485, 2565, 2639, 2708,
       2773, 2833, 2890, 2944, 2996, 3045, 3091, 3135, 3178 >>

\* what the query's words from the i-th on add to the document's score: tf
\* times idf for each time the inverted index lists the document under the
\* word
RECURSIVE TermScores(_, _, _, _)
TermScores(vs, doc, queryWords, i) ==
    IF i > Len(queryWords) THEN 0
    ELSE LET docFreq == Postings(vs.documents, queryWords[i])
             totalDocs == Cardinality(vs.documents)
         IN  (IF docFreq = 0 THEN 0
              ELSE Occurrences(doc, queryWords[i])
                   * ((docFreq * (LnMilli[totalDocs] - LnMilli[docFreq])) \div totalDocs))
             + TermScores(vs, doc, queryWords, i + 1)

\* docScores[doc.ID] at the end of Search's loops
Score(vs, doc, query) ==
    LET queryLower == ToLower(query)
        cmdLower == ToLower(doc.Metadata.Command)
        queryWords == tokenizeSlice(query)
        sum == TermScores(vs, doc, queryWords, 1)
               + (IF /\ Contains(queryLower, <<"l","i","s","t">>) /\ Contains(queryLower, <<"f","i","l","e">>)
                     /\ cmdLower \in { <<"l","s">>, <<"f","i","n","d">>, <<"d","i","r">> }
                  THEN 3000 ELSE 0)
               + (IF /\ Contains(queryLower, <<"d","i","r","e","c","t","o","r","y">>) \/ Contains(queryLower, <<"f","o","l","d","e","r">>)
                     /\ cmdLower \in { <<"l","s">>, <<"p","w","d">>, <<"d","i","r">> }
                  THEN 2000 ELSE 0)
               + (IF cmdLower = ToLower(TrimSpace(query)) THEN 2000 ELSE 0)
               + (IF Contains(queryLower, cmdLower) THEN 1500 ELSE 0)
               + 500 * Len(SelectSeq(queryWords, LAMBDA word : Contains(cmdLower, word)))
        penalized ==
            \/ HasPrefix(cmdLower, <<"g","i","t","-">>) /\ ~Contains(queryLower, <<"g","i","t">>)
            \/ HasPrefix(cmdLower, <<"k","u","b","e","c","t","l">>) /\ ~Contains(queryLower, <<"k","u","b","e">>)
            \/ /\ cmdLower \in { <<"k","i","l","l","a","l","l">>, <<"r","m">> }
               /\ ~Contains(queryLower, <<"k","i","l","l">>) /\ ~Contains(queryLower, <<"r","e","m","o","v","e">>)
    IN  IF penalized THEN sum \div 10 ELSE sum

\* the scores of the documents that pass the threshold, as pairs
Scored(vs, query) ==
    {pair \in {<<doc, Score(vs, doc, query)>> : doc \in vs.documents} : pair[2] > 100}

\* the result of a Search: the documents with their Similarity
Found(pairs, err) ==
    [docs |-> [i \in 1..Len(pairs) |-> pairs[i][1]],
     scores |-> [i \in 1..Len(pairs) |-> pairs[i][2]], err |-> err]

\* a Search that returns its results in the order of the map, unsorted
SearchUnsorted(vs, query, limit) ==
    IF ~vs.initialized THEN {Found(<<>>, TRUE)}
    ELSE LET results == Scored(vs, query)
             n == IF Cardinality(results) > limit THEN limit ELSE Cardinality(results)
         IN  {Found(ranked, FALSE) : ranked \in {r \in Arrangements(results, n) : Len(r) = n}}

\* VectorStore.Search: what it can return.  The results are collected in the
\* order of Go's map iteration and sort.Slice is not stable, so documents of
\* equal score come in any order; the limit cuts the sorted slice
Search(vs, query, limit) ==
    IF ~vs.initialized THEN {Found(<<>>, TRUE)}
    ELSE LET results == Scored(vs, query)
             n == IF Cardinality(results) > limit THEN limit ELSE Cardinality(results)
         IN  {Found(ranked, FALSE) :
                  ranked \in {r \in Arrangements(results, n) :
                                  /\ Len(r) = n
                                  /\ \A i \in 1..(n - 1) : r[i][2] >= r[i + 1][2]
                                  /\ \A pair \in results :
                                         (\A i \in 1..n : r[i] # pair)
                                             => \A i \in 1..n : r[i][2] >= pair[2]}}

(***************************************************************************)
(* The /cmd pipeline: extraction of the command from the model's output,   *)
(* the repair pass, cleaning and validation.                               *)
(***************************************************************************)
\* the element of a set of one element; the value of a step is taken this
\* way where the next step uses it several times
TheOne(set) == CHOOSE x \in set : TRUE

\* strings.HasSuffix and strings.TrimSuffix
HasSuffix(s, suffix) ==
    Len(suffix) <= Len(s) /\ SubSeq(s, Len(s) - Len(suffix) + 1, Len(s)) = suffix

TrimSuffix(s, suffix) ==
    IF HasSuffix(s, suffix) THEN SubSeq(s, 1, Len(s) - Len(suffix)) ELSE s

\* strings.Replace(s, old, new, 1)
ReplaceFirst(s, old, new) ==
    IF IndexString(s, old) = 0 THEN s
    ELSE SubSeq(s, 1, IndexString(s, old) - 1) \o new
         \o SubSeq(s, IndexString(s, old) + Len(old), Len(s))

\* strings.ReplaceAll(s, old, new), old non-empty
RECURSIVE ReplaceAll(_, _, _)
ReplaceAll(s, old, new) ==
    IF IndexString(s, old) = 0 THEN s
    ELSE SubSeq(s, 1, IndexString(s, old) - 1) \o new
         \o TheOne({ReplaceAll(rest, old, new) :
                        rest \in {SubSeq(s, IndexString(s, old) + Len(old), Len(s))}})

\* ai.ExtractCommand.  The two patterns of its last loop only lead to a
\* TrimSpace, which the return statement applies in any case
ExtractCommand(aiOutput) ==
    LET stripped ==
            RemoveAll(RemoveAll(RemoveAll(RemoveAll(RemoveAll(aiOutput, <<Backtick,Backtick,Backtick,"b","a","s","h">>),
                                                    <<Backtick,Backtick,Backtick,"s","h">>), <<Backtick,Backtick,Backtick>>), <<Backtick>>), <<"*","*">>)
        lines == Split(stripped, "\n")
        kept == SelectSeq([i \in 1..Len(lines) |-> TrimSpace(lines[i])],
                          LAMBDA line : /\ line # <<>>
                                        /\ ~HasPrefix(line, <<"/","/">>)
                                        /\ ~HasPrefix(line, <<"#">>))
    IN  IF kept = <<>> THEN <<>> ELSE TrimSpace(Trim(kept[1], {"\"", "'"}))

\* utils.HasBalancedQuotes
HasBalancedQuotes(text) == Count(text, "'") % 2 = 0 /\ Count(text, "\"") % 2 = 0

\* utils.FixUnmatchedQuotes
FixUnmatchedQuotes(command) ==
    IF HasBalancedQuotes(command) THEN command
    ELSE IF Count(command, "\"") % 2 # 0 /\ Contains(command, <<"\"","*",".">>)
    THEN command \o <<"\"">>
    ELSE IF Count(command, "'") % 2 # 0 /\ Contains(command, <<"'","*",".">>)
    THEN command \o <<"'">>
    ELSE command

\* the file patterns of attemptCommandFix, wrong and correct, in its order
filePatterns ==
    << << <<"-","n","a","m","e"," ","'",".","g","o","'">>, <<"-","n","a","m","e"," ","'","*",".","g","o","'">> >>,
       << <<"-","n","a","m","e"," ","\"",".","g","o","\"">>, <<"-","n","a","m","e"," ","\"","*",".","g","o","\"">> >>,
       << <<"-","n","a","m","e"," ",".","g","o">>, <<"-","n","a","m","e"," ","'","*",".","g","o","'">> >>,
       << <<"-","n","a","m","e"," ","'",".","g","o">>, <<"-","n","a","m","e"," ","'","*",".","g","o","'">> >>,
       << <<"-","n","a","m","e"," ","\"","*",".","g","o">>, <<"-","n","a","m","e"," ","\"","*",".","g","o","\"">> >>,
       << <<"-","n","a","m","e"," ","'","*",".","g","o">>, <<"-","n","a","m","e"," ","'","*",".","g","o","'">> >>,
       << <<"-","n","a","m","e"," ","'",".","p","y","'">>, <<"-","n","a","m","e"," ","'","*",".","p","y","'">> >>,
       << <<"-","n","a","m","e"," ","'",".","j","s","'">>, <<"-","n","a","m","e"," ","'","*",".","j","s","'">> >>,
       << <<"-","n","a","m","e"," ","'",".","m","d","'">>, <<"-","n","a","m","e"," ","'","*",".","m","d","'">> >>,
       << <<"-","n","a","m","e"," ","'",".","t","x","t","'">>, <<"-","n","a","m","e"," ","'","*",".","t","x","t","'">> >>,
       << <<"-","n","a","m","e"," ","'",".","j","a","v","a","'">>, <<"-","n","a","m","e"," ","'","*",".","j","a","v","a","'">> >>,
       << <<"-","n","a","m","e"," ","'",".","c","p","p","'">>, <<"-","n","a","m","e"," ","'","*",".","c","p","p","'">> >>,
       << <<"-","n","a","m","e"," ","'",".","c","'">>, <<"-","n","a","m","e"," ","'","*",".","c","'">> >>,
       << <<"-","n","a","m","e"," ","'",".","h","t","m","l","'">>, <<"-","n","a","m","e"," ","'","*",".","h","t","m","l","'">> >>,
       << <<"-","n","a","m","e"," ","'",".","c","s","s","'">>, <<"-","n","a","m","e"," ","'","*",".","c","s","s","'">> >> >>

\* the loop over filePatterns, from the k-th pattern on
RECURSIVE FixFilePatterns(_, _)
FixFilePatterns(command, k) ==
    IF k > Len(filePatterns) THEN command
    ELSE TheOne({FixFilePatterns(replaced, k + 1) :
                    replaced \in {ReplaceFirst(command, filePatterns[k][1],
                                               filePatterns[k][2])}})

\* the index of the first character of s from the i-th on that is not in
\* set, Len(s) + 1 if none
SkipAll(s, i, set) ==
    LET others == {k \in i..Len(s) : s[k] \notin set}
    IN  IF others = {} THEN Len(s) + 1 ELSE SetMin(others)

\* patternRegex of attemptCommandFix, -name\s+['"]?(\.[a-zA-Z0-9]+)['"]?,
\* tried at the i-th character: whether it matches, and the ends of the group
\* and of the match.  Every item takes all it can and none can give back
patternRegexAt(s, i) ==
    LET blank == i + 5
        quote == SkipAll(s, blank, Whitespace)
        dot == IF quote <= Len(s) /\ s[quote] \in {"'", "\""} THEN quote + 1 ELSE quote
        after == SkipAll(s, dot + 1,
                         LetterRange("a", "z", TRUE)
                             \cup {"0", "1", "2", "3", "4", "5", "6", "7", "8", "9"})
    IN  [matches |-> /\ HasPrefix(SubSeq(s, i, Len(s)), <<"-","n","a","m","e">>)
                     /\ quote > blank
                     /\ dot <= Len(s) /\ s[dot] = "."
                     /\ after > dot + 1,
         from |-> i, dot |-> dot, after |-> after,
         to |-> IF after <= Len(s) /\ s[after] \in {"'", "\""} THEN after ELSE after - 1]

\* the replacement of Fix 2, given the match m: in the text matched, the
\* extension gets a star in front
ReplaceMatch(command, m) ==
    ReplaceFirst(command, SubSeq(command, m.from, m.to),
                 ReplaceFirst(SubSeq(command, m.from, m.to),
                              SubSeq(command, m.dot, m.after - 1),
                              <<"*">> \o SubSeq(command, m.dot, m.after - 1)))

\* Fix 2 of attemptCommandFix: FindStringSubmatch takes the leftmost match
FixPatternRegex(command) ==
    TheOne({IF starts = {} THEN command
            ELSE TheOne({ReplaceMatch(command, m) :
                            m \in {patternRegexAt(command, SetMin(starts))}}) :
               starts \in {{i \in 1..Len(command) :
                               /\ HasPrefix(SubSeq(command, i, Len(command)), <<"-","n","a","m","e">>)
                               /\ patternRegexAt(command, i).matches}}})

\* Fix 3 of attemptCommandFix, after its TrimSpace: a trailing ); goes
TrimCloseSemicolon(command) ==
    IF HasSuffix(command, <<")",";">>) THEN TrimSuffix(command, <<")",";">>) ELSE command

\* Fix 3, second part: a trailing ) goes when the command has no (
TrimClose(command) ==
    IF HasSuffix(command, <<")">>) /\ ~Contains(command, <<"(">>)
    THEN TrimSuffix(command, <<")">>) ELSE command

\* Fix 5 of attemptCommandFix
DropGitBeforeFind(command) ==
    ReplaceAll(IF HasPrefix(command, <<"g","i","t"," ","f","i","n","d">>) THEN TrimPrefix(command, <<"g","i","t"," ">>)
               ELSE command,
               <<"g","i","t"," ","f","i","n","d">>, <<"f","i","n","d">>)

\* attemptCommandFix: its five fixes, each applied to the result of the one
\* before
attemptCommandFix(command) ==
    TheOne({DropGitBeforeFind(fix4) :
               fix4 \in {FixUnmatchedQuotes(fix3) :
                   fix3 \in {TrimClose(fix3a) :
                       fix3a \in {TrimCloseSemicolon(fix2) :
                           fix2 \in {TrimSpace(FixPatternRegex(fix1)) :
                               fix1 \in {FixFilePatterns(command, 1)}}}}}})

\* hasSyntaxErrors
hasSyntaxErrors(command) ==
    \/ Count(command, "'") % 2 # 0 /\ Count(command, "'") > 1
    \/ Count(command, "\"") % 2 # 0 /\ Count(command, "\"") > 1
    \/ HasSuffix(TrimSpace(command), <<")">>) /\ ~Contains(TrimSpace(command), <<"(">>)
    \/ \E pattern \in { <<"&","&",")">>, <<"|","|",")">>, <<"|",")">>, <<">",")">>, <<">",">",")">>, <<"<",")">>, <<"f","i","n","d"," ",".",")">>,
                        <<"g","r","e","p"," ",")">>, <<"l","s"," ",")">> } : Contains(command, pattern)

UnmatchedQuotes == Errorf("command has unmatched quotes")

\* package commands' ValidateAndCleanCommand: [command, err]
\* the end of ValidateAndCleanCommand, given the command with its quotes
\* repaired: the check of the quotes, the first line, ValidateCommand
ValidateCleaned(c4) ==
    IF ~HasBalancedQuotes(c4) THEN [command |-> <<>>, err |-> UnmatchedQuotes]
    ELSE IF c4 = <<>> THEN [command |-> <<>>, err |-> Errorf("empty command after cleaning")]
    ELSE TheOne({IF ValidateCommand(c5) # Nil
                 THEN [command |-> <<>>, err |-> ValidateCommand(c5)]
                 ELSE [command |-> c5, err |-> Nil] :
                    c5 \in {IF Contains(c4, <<"\n">>) THEN TrimSpace(Split(c4, "\n")[1])
                            ELSE c4}})

\* package commands' ValidateAndCleanCommand: [command, err]
ValidateAndCleanCommand(command) ==
    TheOne({ValidateCleaned(c4) :
               c4 \in {FixUnmatchedQuotes(c3) :
                   c3 \in {Trim(RemoveAll(RemoveAll(
                                    RemoveAll(RemoveAll(TrimSpace(command), <<Backtick>>),
                                              <<Backtick,Backtick,Backtick>>),
                                    <<"*","*">>), <<"*">>),
                                {"\"", "'"})}}})

\* the result of WrapCommand: the sandbox's verdict, whether ExecuteCommand was
\* called, and the outcome
Wrapped(verdict, called, outcome) ==
    [verdict |-> verdict, called |-> called, outcome |-> outcome]

\* the ExecuteCommand of the package that is built
ExecuteCommandOf(p, command, config, response, runOk) ==
    IF p = "main" THEN MainExecuteCommand(command, config, response, runOk)
    ELSE ExecuteCommand(command, config, response, runOk)

\* WrapCommandUnchecked hands the command to the executor whatever the verdict
WrapCommandUnchecked(p, ds, command, config, response, runOk) ==
    Wrapped(SandboxValidateCommand(ds, command), TRUE,
            ExecuteCommandOf(p, command, config, response, runOk))

\* DirectorySandbox.WrapCommand
WrapCommand(p, ds, command, config, response, runOk) ==
    LET verdict == SandboxValidateCommand(ds, command)
    IN  IF ~verdict.valid
        THEN Wrapped(verdict, FALSE,
                     Outcome(Wrap("sandbox violation", Errorf(verdict.reason)), <<>>, FALSE))
        ELSE Wrapped(verdict, TRUE, ExecuteCommandOf(p, command, config, response, runOk))

(***************************************************************************)
(* Inputs.                                                                 *)
(***************************************************************************)
\* "sudo rm -rf /"
cmdSudoRmRoot == <<"s","u","d","o"," ","r","m"," ","-","r","f"," ","/">>
\* "rm -rf ../other"
cmdRmParent == <<"r","m"," ","-","r","f"," ",".",".","/","o","t","h","e","r">>
\* "mkfs.ext4 disk.img"
cmdMkfs == <<"m","k","f","s",".","e","x","t","4"," ","d","i","s","k",".","i","m","g">>

\* the commands handed to the validators, the sandbox and the executor
Commands ==
    { cmdSudoRmRoot, cmdRmParent, cmdMkfs,
      <<"l","s"," ","-","l","a">>,  \* "ls -la"
      <<" "," ","l","s"," "," ">>,  \* "  ls  "
      <<"e","c","h","o"," ","h","i">>,  \* "echo hi"
      <<"e","c","h","o"," ","h","i"," ",">"," ","o","u","t",".","t","x","t">>,  \* "echo hi > out.txt"
      <<"f","i","n","d"," ","."," ","-","n","a","m","e"," ","'","*",".","g","o","'">>,  \* "find . -name '*.go'"
      <<>>,  \* ""
      <<" "," "," ">>,  \* "   "
      <<"e","c","h","o"," ","'","a">>,  \* "echo 'a"
      <<"e","c","h","o"," ","'","a","'"," ","'","b">>,  \* "echo 'a' 'b"
      <<"R","M"," ","-","R","F"," ","/">>,  \* "RM -RF /"
      <<"r","m"," "," ","-","r","f"," "," ","/","v","a","r">>,  \* "rm  -rf  /var"
      <<"r","m"," ","-","r"," ",".",".">>,  \* "rm -r .."
      <<"c","h","m","o","d"," ","-","R"," ","7","7","7"," ","/">>,  \* "chmod -R 777 /"
      <<"c","h","m","o","d"," ","-","r"," ","7","7","7"," ","/">>,  \* "chmod -r 777 /"
      <<"c","h","m","o","d"," ","6","4","4"," ","n","o","t","e","s",".","t","x","t">>,  \* "chmod 644 notes.txt"
      <<"M","K","F","S"," ","d","i","s","k",".","i","m","g">>,  \* "MKFS disk.img"
      <<" ","f","d","i","s","k"," ","-","l"," "," ">>,  \* " fdisk -l  "
      <<":","(",")","{"," ",":","|",":","&"," ","}",";",":">>,  \* ":(){ :|:& };:"
      <<"e","c","h","o"," ","x"," ",">"," ","/","d","e","v","/","s","d","a">>,  \* "echo x > /dev/sda"
      <<"e","c","h","o"," ","x"," ",">"," ","/","d","e","v","/","s","d","b">>,  \* "echo x > /dev/sdb"
      <<"e","c","h","o"," ","x"," ",">",":","\\","/","d","e","v","/","s","d","b">>,  \* "echo x >:\/dev/sdb"
      <<"f","o","r","m","a","t"," ","d",":">>,  \* "format d:"
      <<"F","O","R","M","A","T"," ","C",":">>,  \* "FORMAT C:"
      <<"d","d"," ","i","f","=","/","d","e","v","/","z","e","r","o"," ","o","f","=","d","i","s","k",".","i","m","g">>,  \* "dd if=/dev/zero of=disk.img"
      <<"c","a","t"," ",".",".","/","x">>,  \* "cat ../x"
      <<"l","s"," ",".",".">>,  \* "ls .."
      <<"/","b","i","n","/","r","m"," ","x">>,  \* "/bin/rm x"
      <<"c","a","t"," ","/","e","t","c","/","p","a","s","s","w","d">>,  \* "cat /etc/passwd"
      <<"p","r","i","n","t","f"," ","x"," ",">"," ",".",".","/","f">>,  \* "printf x > ../f"
      <<"l","s","o","f"," ",".",".","/","x">>,  \* "lsof ../x"
      <<"c","d"," ",".",".">>,  \* "cd .."
      <<"t","o","u","c","h"," ",".",".","/","f">>,  \* "touch ../f"
      <<"m","v"," ","a"," ","b">>,  \* "mv a b"
      <<"c","p"," ","a"," ","s","u","b","/","b">>,  \* "cp a sub/b"
      <<"c","p"," ","a"," ",".",".">>,  \* "cp a .."
      <<">"," ","/","b","o","o","t","/","x">> }  \* "> /boot/x"

\* what the user types at a confirmation prompt
Responses == { <<"y">>, <<"Y","E","S">>, <<"n">>, <<>> }

Configs == [DryRun : BOOLEAN, AutoConfirm : BOOLEAN, SafeMode : BOOLEAN]

DefaultExecuteConfig == [DryRun |-> FALSE, AutoConfirm |-> FALSE, SafeMode |-> TRUE]

\* the two programs of the repository: package main at the root, and cmd/helix
\* with package commands
Packages == {"main", "commands"}

\* the directory the process is started in, and the directories that exist
StartDir == <<"/","h","o","m","e","/","a","l","i","c","e","/","p","r","o","j">>

ExistingDirs ==
    { <<"/","t","m","p">>, <<"/","h","o","m","e","/","a","l","i","c","e">>, <<"/","h","o","m","e","/","a","l","i","c","e","/","p","r","o","j">>, <<"/","h","o","m","e","/","a","l","i","c","e","/","p","r","o","j","/","s","u","b">>,
      <<"/","h","o","m","e","/","a","l","i","c","e","/","p","r","o","j","/","s","u","b","/","d","e","e","p">> }

\* arguments of ChangeDirectory
DirArgs ==
    { <<"s","u","b">>, <<"d","e","e","p">>, <<"s","u","b","/","d","e","e","p">>, <<".","/","s","u","b","/">>, <<".",".">>, <<".",".","/","o","t","h","e","r">>,
      <<"/","t","m","p">>, <<"/","h","o","m","e","/","a","l","i","c","e","/","p","r","o","j","/","s","u","b">>, <<"n","o","s","u","c","h">> }

\* os.Chdir: the directory the process would be in, relative paths resolved
\* against the working directory
ChdirTarget(wd, dir) == IF IsAbs(dir) THEN Clean(dir) ELSE Join(wd, dir)

(***************************************************************************)
(* The state.  pkg is the program that runs; execConfig, sandbox and cwd   *)
(* are the globals of main and the working directory of the process; last  *)
(* describes the call the interactive loop has just made, and is cleared   *)
(* when the loop prompts again.                                            *)
(***************************************************************************)
NoVerdict == Verdict(TRUE, "")

NoOutcome == Outcome(Nil, <<>>, FALSE)

\* what a call did: the sandbox's verdict, whether the executor was called, and
\* the executor's outcome
Call(op, command, config, did) ==
    [op |-> op, command |-> command, config |-> config, verdict |-> did.verdict,
     called |-> did.called, outcome |-> did.outcome]

Nothing == Wrapped(NoVerdict, FALSE, NoOutcome)

\* a call that only returns an error
Returned(err) == Wrapped(NoVerdict, FALSE, Outcome(err, <<>>, FALSE))

\* NewDirectorySandbox, with os.Getwd succeeding
NewDirectorySandbox(currentDir) ==
    [allowedDir |-> currentDir, mode |-> "SandboxCurrentDir", originalDir |-> currentDir]

Init ==
    /\ pkg \in Packages
    /\ mockMode = FALSE
    /\ execConfig = DefaultExecuteConfig
    /\ sandbox = NewDirectorySandbox(StartDir)
    /\ cwd = StartDir
    /\ last = Call("main", <<>>, DefaultExecuteConfig, Nothing)
    /\ InitRAG({{pageLs, pageCp, pageMv, pageCat}})

\* the loop is waiting for a line
AtPrompt == last.op \in {"main", "prompt"}

\* the handler has returned: the loop prompts for the next line
Prompt ==
    /\ ~AtPrompt
    /\ last' = Call("prompt", <<>>, execConfig, Nothing)
    /\ UNCHANGED <<pkg, mockMode, execConfig, sandbox, cwd, ragVars>>

\* main falls back to the mock loop when the model cannot be loaded
runEnhancedMockMode ==
    /\ last.op = "main"
    /\ mockMode' = TRUE
    /\ execConfig' = [execConfig EXCEPT !.DryRun = TRUE]
    /\ last' = Call("runEnhancedMockMode", <<>>, execConfig', Nothing)
    /\ UNCHANGED <<pkg, sandbox, cwd, ragVars>>

toggleDryRun ==
    /\ AtPrompt
    /\ execConfig' = [execConfig EXCEPT !.DryRun = ~execConfig.DryRun]
    /\ last' = Call("toggleDryRun", <<>>, execConfig', Nothing)
    /\ UNCHANGED <<pkg, mockMode, sandbox, cwd, ragVars>>

\* a call of utils.ValidateCommand
DoValidateCommand ==
    /\ AtPrompt
    /\ \E command \in Commands :
        last' = Call("ValidateCommand", command, execConfig, Returned(ValidateCommand(command)))
    /\ UNCHANGED <<pkg, mockMode, execConfig, sandbox, cwd, ragVars>>

\* a call of ExecuteCommand; the caller passes the program's execConfig or a
\* configuration of its own
DoExecuteCommand ==
    /\ AtPrompt
    /\ \E command \in Commands, config \in Configs, response \in Responses,
          runOk \in BOOLEAN :
        last' = Call("ExecuteCommand", command, config,
                     Wrapped(NoVerdict, TRUE,
                             ExecuteCommandOf(pkg, command, config, response, runOk)))
    /\ UNCHANGED <<pkg, mockMode, execConfig, sandbox, cwd, ragVars>>

\* a call of sandbox.WrapCommand
DoWrapCommand ==
    /\ AtPrompt
    /\ \E command \in Commands, config \in Configs, response \in Responses,
          runOk \in BOOLEAN :
        last' = Call("WrapCommand", command, config,
                     WrapCommand(pkg, sandbox, command, config, response, runOk))
    /\ UNCHANGED <<pkg, mockMode, execConfig, sandbox, cwd, ragVars>>

SetMode ==
    /\ AtPrompt
    /\ \E mode \in SandboxModes : sandbox' = [sandbox EXCEPT !.mode = mode]
    /\ last' = Call("SetMode", <<>>, execConfig, Nothing)
    /\ UNCHANGED <<pkg, mockMode, execConfig, cwd, ragVars>>

\* ChangeDirectoryEagerUpdate records the new allowed directory before os.Chdir
\* is known to have succeeded
ChangeDirectoryEagerUpdate ==
    /\ AtPrompt
    /\ \E newDir \in DirArgs, chdirOk \in BOOLEAN :
        LET c0 == Clean(newDir)
            cleanDir == IF IsAbs(c0) THEN c0 ELSE Join(sandbox.allowedDir, c0)
            target == IF sandbox.mode = "SandboxDisabled" THEN ChdirTarget(cwd, newDir)
                      ELSE ChdirTarget(cwd, cleanDir)
            changed == chdirOk /\ target \in ExistingDirs
            Returns(err) == Call("ChangeDirectory", newDir, execConfig, Returned(err))
        IN  IF sandbox.mode = "SandboxDisabled"
            THEN /\ cwd' = IF changed THEN target ELSE cwd
                 /\ last' = Returns(IF changed THEN Nil ELSE Errorf("chdir"))
                 /\ UNCHANGED sandbox
            ELSE IF isOutsideSandbox(sandbox, cleanDir)
            THEN /\ last' = Returns(Errorf("cannot change to directory outside sandbox"))
                 /\ UNCHANGED <<sandbox, cwd>>
            ELSE /\ cwd' = IF changed THEN target ELSE cwd
                 /\ sandbox' = [sandbox EXCEPT !.allowedDir = cleanDir]
                 /\ last' = Returns(IF changed THEN Nil ELSE Errorf("chdir"))
    /\ UNCHANGED <<pkg, mockMode, execConfig, ragVars>>

\* ChangeDirectory; chdirOk is whether os.Chdir succeeds on an existing directory
ChangeDirectory ==
    /\ AtPrompt
    /\ \E newDir \in DirArgs, chdirOk \in BOOLEAN :
        LET c0 == Clean(newDir)
            cleanDir == IF IsAbs(c0) THEN c0 ELSE Join(sandbox.allowedDir, c0)
            target == IF sandbox.mode = "SandboxDisabled" THEN ChdirTarget(cwd, newDir)
                      ELSE ChdirTarget(cwd, cleanDir)
            changed == chdirOk /\ target \in ExistingDirs
            Returns(err) == Call("ChangeDirectory", newDir, execConfig, Returned(err))
        IN  IF sandbox.mode = "SandboxDisabled"
            THEN /\ cwd' = IF changed THEN target ELSE cwd
                 /\ last' = Returns(IF changed THEN Nil ELSE Errorf("chdir"))
                 /\ UNCHANGED sandbox
            ELSE IF isOutsideSandbox(sandbox, cleanDir)
            THEN /\ last' = Returns(Errorf("cannot change to directory outside sandbox"))
                 /\ UNCHANGED <<sandbox, cwd>>
            ELSE IF ~changed
            THEN /\ last' = Returns(Errorf("chdir"))
                 /\ UNCHANGED <<sandbox, cwd>>
            ELSE /\ cwd' = target
                 /\ sandbox' = [sandbox EXCEPT !.allowedDir = cleanDir]
                 /\ last' = Returns(Nil)
    /\ UNCHANGED <<pkg, mockMode, execConfig, ragVars>>

\* ResetToOriginal; chdirOk as in ChangeDirectory
ResetToOriginal ==
    /\ AtPrompt
    /\ \E chdirOk \in BOOLEAN :
        LET changed == chdirOk /\ sandbox.originalDir \in ExistingDirs
            Returns(err) == Call("ResetToOriginal", <<>>, execConfig, Returned(err))
        IN  IF sandbox.mode # "SandboxDisabled" /\ isOutsideSandbox(sandbox, sandbox.originalDir)
            THEN /\ last' = Returns(Errorf("cannot reset to original directory outside sandbox"))
                 /\ UNCHANGED <<sandbox, cwd>>
            ELSE IF ~changed
            THEN /\ last' = Returns(Errorf("chdir"))
                 /\ UNCHANGED <<sandbox, cwd>>
            ELSE /\ cwd' = sandbox.originalDir
                 /\ sandbox' = [sandbox EXCEPT !.allowedDir = sandbox.originalDir]
                 /\ last' = Returns(Nil)
    /\ UNCHANGED <<pkg, mockMode, execConfig, ragVars>>

Next ==
    \/ Prompt
    \/ runEnhancedMockMode
    \/ toggleDryRun
    \/ DoValidateCommand
    \/ DoExecuteCommand
    \/ DoWrapCommand
    \/ SetMode
    \/ ChangeDirectory
    \/ ResetToOriginal

Spec == Init /\ [][Next]_vars

\* the executor and the flags alone: the executor does not read the sandbox
NextExec ==
    \/ Prompt
    \/ runEnhancedMockMode
    \/ toggleDryRun
    \/ DoValidateCommand
    \/ DoExecuteCommand

SpecExec == Init /\ [][NextExec]_vars

\* the sandbox's gate in each mode: WrapCommand is given its configuration by
\* the caller
NextWrap ==
    \/ Prompt
    \/ SetMode
    \/ DoWrapCommand

SpecWrap == Init /\ [][NextWrap]_vars

\* the sandbox's directories
NextDirs ==
    \/ Prompt
    \/ SetMode
    \/ ChangeDirectory
    \/ ResetToOriginal

SpecDirs == Init /\ [][NextDirs]_vars


(***************************************************************************)
(* The retrieval system's life: the process starts and stops, Initialize   *)
(* runs in its goroutine and the indexer in another.  The steps of the     *)
(* goroutines are taken while the loop waits for a line.                   *)
(***************************************************************************)
\* the process ends, by /exit, a signal or a crash: its goroutines end with
\* it wherever they are, and its memory is gone
Exit ==
    /\ AtPrompt
    /\ goroutines.main = "running"
    /\ rs' = NewSystem
    /\ vectorStore' = NewVectorStore
    /\ indexer' = NewMANIndexer
    /\ goroutines' = Goroutines("stopped", "none", "idle")
    /\ UNCHANGED <<pkg, mockMode, execConfig, sandbox, cwd, last, disk>>
    /\ run' = NoRun
    /\ index' = {}
    /\ mu' = Unlocked

\* a later start of the program, with the model loaded: main makes the
\* RAGSystem and calls IndexAvailableManPages, for IsInitialized is false
main ==
    /\ goroutines.main = "stopped"
    /\ mockMode' = FALSE
    /\ execConfig' = DefaultExecuteConfig
    /\ sandbox' = NewDirectorySandbox(StartDir)
    /\ cwd' = StartDir
    /\ last' = Call("main", <<>>, DefaultExecuteConfig, Nothing)
    /\ rs' = NewSystem
    /\ vectorStore' = NewVectorStore
    /\ indexer' = NewMANIndexer
    /\ goroutines' = IndexAvailableManPages(NewVectorStore, disk)
    /\ UNCHANGED <<pkg, disk, run, index, mu>>

\* /rag-reindex: the state file is removed and IndexAvailableManPages called
\* again (taken when no Initialize is under way)
handleRAGReindex ==
    /\ AtPrompt
    /\ goroutines.main = "running"
    /\ goroutines.Initialize \in {"none", "returned"}
    /\ disk' = [disk EXCEPT !.stateFile = Absent]
    /\ goroutines' = IF hasExistingState(vectorStore, disk') THEN goroutines
                     ELSE Goroutines("running", "start", "idle")
    /\ last' = Call("handleRAGReindex", <<>>, execConfig, Nothing)
    /\ UNCHANGED <<pkg, mockMode, execConfig, sandbox, cwd, rs, vectorStore, indexer, run, index, mu>>

\* RAGSystem.IndexAvailableManPages, called while the goroutine of an earlier
\* call is in Initialize: it looks at the state file and the store alone
IndexAgain(g, vs, d) ==
    IF hasExistingState(vs, d) THEN g ELSE [g EXCEPT !.second = "start"]

\* /rag-reindex while an Initialize is under way: the state file is removed
\* and IndexAvailableManPages called again
handleRAGReindexDuringRun ==
    /\ AtPrompt
    /\ goroutines.main = "running"
    /\ goroutines.Initialize \notin {"none", "returned"}
    /\ goroutines.second = "none"
    /\ disk' = [disk EXCEPT !.stateFile = Absent]
    /\ goroutines' = IndexAgain(goroutines, vectorStore, disk')
    /\ last' = Call("handleRAGReindex", <<>>, execConfig, Nothing)
    /\ UNCHANGED <<pkg, mockMode, execConfig, sandbox, cwd, rs, vectorStore, indexer, run, index, mu>>

\* Initialize up to the start of the indexer: the state file, then the
\* vector index alone, then indexing
Initialize ==
    /\ AtPrompt
    /\ goroutines.Initialize = "start"
    /\ LET st == loadSystemState(rs, vectorStore, disk)
           ix == tryLoadExistingIndex(st.vs, disk)
       IN  IF st.ok
           THEN /\ rs' = st.rs
                /\ vectorStore' = st.vs
                /\ goroutines' = [goroutines EXCEPT !.Initialize = "returned"]
           ELSE /\ rs' = st.rs
                /\ vectorStore' = ix.vs
                /\ goroutines' = IF ix.ok
                                 THEN [goroutines EXCEPT !.Initialize = "saveState"]
                                 ELSE [goroutines EXCEPT !.Initialize = "indexing",
                                                         !.indexer = "running"]
    /\ UNCHANGED <<pkg, mockMode, execConfig, sandbox, cwd, last, indexer, disk, run, index, mu>>

\* MANIndexer.IndexAvailableManPages: a worker's page is put into the map;
\* the goroutine goes on after Initialize has stopped waiting for it
manPageIndexed ==
    /\ AtPrompt
    /\ goroutines.indexer = "running"
    /\ \E page \in disk.manPages \ indexer.indexed :
           indexer' = [indexer EXCEPT !.indexed = @ \cup {page}]
    /\ UNCHANGED <<pkg, mockMode, execConfig, sandbox, cwd, last, rs, vectorStore, disk, goroutines, run,
                   index, mu>>

\* all pages are processed: the indexer's goroutine sends on done
indexerDone ==
    /\ AtPrompt
    /\ goroutines.indexer = "running"
    /\ disk.manPages \subseteq indexer.indexed
    /\ goroutines' = [goroutines EXCEPT !.indexer = "done"]
    /\ UNCHANGED <<pkg, mockMode, execConfig, sandbox, cwd, last, rs, vectorStore, indexer, disk, run,
                   index, mu>>

\* an Initialize that marks the system initialised whatever was indexed
BuildVectorIndexMarksAlways ==
    IF IndexMANPagesFails(indexer.indexed)
    THEN /\ rs' = [rs EXCEPT !.initialized = TRUE]
         /\ goroutines' = [goroutines EXCEPT !.Initialize = "saveState"]
         /\ UNCHANGED <<vectorStore, disk>>
    ELSE /\ vectorStore' = IndexedStore(vectorStore, indexer.indexed)
         /\ disk' = [disk EXCEPT !.tempFile = Truncated]
         /\ goroutines' = [goroutines EXCEPT !.Initialize = "writeTemp",
                                             !.indexData = {vectorStore'.documents}]
         /\ UNCHANGED rs

\* Initialize after its select: without pages the system is left
\* uninitialised; with pages the vector store indexes them and
\* saveVectorIndex opens its temporary file, or IndexMANPages fails and the
\* system is marked initialised all the same
BuildVectorIndex ==
    IF Cardinality(indexer.indexed) = 0
    THEN /\ rs' = [rs EXCEPT !.initialized = FALSE]
         /\ goroutines' = [goroutines EXCEPT !.Initialize = "saveState"]
         /\ UNCHANGED <<vectorStore, disk>>
    ELSE IF IndexMANPagesFails(indexer.indexed)
    THEN /\ rs' = [rs EXCEPT !.initialized = TRUE]
         /\ goroutines' = [goroutines EXCEPT !.Initialize = "saveState"]
         /\ UNCHANGED <<vectorStore, disk>>
    ELSE /\ vectorStore' = IndexedStore(vectorStore, indexer.indexed)
         /\ disk' = [disk EXCEPT !.tempFile = Truncated]
         /\ goroutines' = [goroutines EXCEPT !.Initialize = "writeTemp",
                                             !.indexData = {vectorStore'.documents}]
         /\ UNCHANGED rs

\* the select of Initialize receives from done
indexingCompleted ==
    /\ AtPrompt
    /\ goroutines.Initialize = "indexing"
    /\ goroutines.indexer = "done"
    /\ BuildVectorIndex
    /\ UNCHANGED <<pkg, mockMode, execConfig, sandbox, cwd, last, indexer, run, index, mu>>

\* a select that gives up at the timeout whatever has been indexed
indexingTimedOutGivesUp ==
    /\ AtPrompt
    /\ goroutines.Initialize = "indexing"
    /\ rs' = [rs EXCEPT !.initialized = FALSE]
    /\ goroutines' = [goroutines EXCEPT !.Initialize = "saveState"]
    /\ UNCHANGED <<pkg, mockMode, execConfig, sandbox, cwd, last, indexer, vectorStore, disk, run, index, mu>>

\* the select of Initialize receives from ctx.Done: maxIndexingTime is over
indexingTimedOut ==
    /\ AtPrompt
    /\ goroutines.Initialize = "indexing"
    /\ BuildVectorIndex
    /\ UNCHANGED <<pkg, mockMode, execConfig, sandbox, cwd, last, indexer, run, index, mu>>

\* saveVectorIndex: the temporary file is written
writeTempFile ==
    /\ AtPrompt
    /\ goroutines.Initialize = "writeTemp"
    /\ disk' = [disk EXCEPT !.tempFile = [exists |-> TRUE, content |-> goroutines.indexData]]
    /\ goroutines' = [goroutines EXCEPT !.Initialize = "rename"]
    /\ UNCHANGED <<pkg, mockMode, execConfig, sandbox, cwd, last, rs, vectorStore, indexer, run, index, mu>>

\* saveVectorIndex: os.WriteFile fails; Initialize marks the system
\* initialised all the same
writeTempFileFails ==
    /\ AtPrompt
    /\ goroutines.Initialize = "writeTemp"
    /\ rs' = [rs EXCEPT !.initialized = TRUE]
    /\ goroutines' = [goroutines EXCEPT !.Initialize = "saveState", !.indexData = {}]
    /\ UNCHANGED <<pkg, mockMode, execConfig, sandbox, cwd, last, vectorStore, indexer, disk, run, index, mu>>

\* saveVectorIndex: the temporary file is renamed to the index file, and
\* Initialize marks the system initialised
renameTempFile ==
    /\ AtPrompt
    /\ goroutines.Initialize = "rename"
    /\ disk' = [disk EXCEPT !.vectorIndex = disk.tempFile, !.tempFile = Absent]
    /\ rs' = [rs EXCEPT !.initialized = TRUE]
    /\ goroutines' = [goroutines EXCEPT !.Initialize = "saveState", !.indexData = {}]
    /\ UNCHANGED <<pkg, mockMode, execConfig, sandbox, cwd, last, vectorStore, indexer, run, index, mu>>

\* saveSystemState: the state is marshalled and os.WriteFile opens the state
\* file itself, truncating it
saveSystemState ==
    /\ AtPrompt
    /\ goroutines.Initialize = "saveState"
    /\ disk' = [disk EXCEPT !.stateFile = Truncated]
    /\ goroutines' = [goroutines EXCEPT !.Initialize = "writeState",
                                        !.stateData = {StateToSave(rs, indexer, vectorStore)}]
    /\ UNCHANGED <<pkg, mockMode, execConfig, sandbox, cwd, last, rs, vectorStore, indexer, run, index, mu>>

\* saveSystemState: os.WriteFile writes the bytes, and Initialize returns
writeStateFile ==
    /\ AtPrompt
    /\ goroutines.Initialize = "writeState"
    /\ disk' = [disk EXCEPT !.stateFile = [exists |-> TRUE, content |-> goroutines.stateData]]
    /\ goroutines' = [goroutines EXCEPT !.Initialize = "returned", !.stateData = {}]
    /\ UNCHANGED <<pkg, mockMode, execConfig, sandbox, cwd, last, rs, vectorStore, indexer, run, index, mu>>

\* what the user asks for
Queries ==
    { <<>>, <<" "," ">>, <<"l","s"," ","c","p"," ","m","v"," ","c","a","t">>, <<"l","i","s","t"," ","f","i","l","e","s">>, <<"z","i","p"," ","i","t">>, <<"x","c","m","d">>,
      <<"c","o","p","y"," ","w","i","t","h"," ","C","P">> }

\* a call that returns a prompt: the prompt it was given or built first, the
\* one it returned, and the commands retrieved for it
Prompted(hasRag, originalPrompt, prompt, result) ==
    Wrapped(NoVerdict, FALSE,
            [err |-> Nil, hasRag |-> hasRag, original |-> originalPrompt, prompt |-> prompt,
             commands |-> result.Commands])

\* a call of RAGSystem.EnhancePrompt with the command prompt
DoEnhancePrompt ==
    /\ AtPrompt
    /\ goroutines.main = "running"
    /\ \E userInput \in Queries :
       \E result \in Retrieved(rs, vectorStore, userInput) :
           last' = Call("EnhancePrompt", userInput, execConfig,
                        Prompted(TRUE, buildOriginalCommandPrompt(userInput),
                                 EnhancePrompt(rs, userInput,
                                               buildOriginalCommandPrompt(userInput), result),
                                 result))
    /\ UNCHANGED <<pkg, mockMode, execConfig, sandbox, cwd, ragVars>>

\* a call of PromptBuilder.BuildCommandPrompt, of a builder made by
\* NewPromptBuilder or by NewEnhancedPromptBuilder
DoBuildCommandPrompt ==
    /\ AtPrompt
    /\ goroutines.main = "running"
    /\ \E userInput \in Queries, hasRag \in BOOLEAN :
       \E result \in IF hasRag THEN Retrieved(rs, vectorStore, userInput) ELSE {NoResult} :
           last' = Call("BuildCommandPrompt", userInput, execConfig,
                        Prompted(hasRag, buildOriginalCommandPrompt(userInput),
                                 BuildCommandPrompt(hasRag, rs, userInput, result), result))
    /\ UNCHANGED <<pkg, mockMode, execConfig, sandbox, cwd, ragVars>>

NextRag ==
    \/ Prompt
    \/ Exit
    \/ main
    \/ handleRAGReindex
    \/ Initialize
    \/ manPageIndexed
    \/ indexerDone
    \/ indexingCompleted
    \/ indexingTimedOut
    \/ writeTempFile
    \/ writeTempFileFails
    \/ renameTempFile
    \/ saveSystemState
    \/ writeStateFile
    \/ DoEnhancePrompt

InitRag ==
    /\ pkg = "commands"
    /\ mockMode = FALSE
    /\ execConfig = DefaultExecuteConfig
    /\ sandbox = NewDirectorySandbox(StartDir)
    /\ cwd = StartDir
    /\ last = Call("main", <<>>, DefaultExecuteConfig, Nothing)
    /\ InitRAG(Hosts)

SpecRag == InitRag /\ [][NextRag]_vars

\* a session in which /rag-reindex is given at any prompt
NextReindex ==
    \/ Prompt
    \/ handleRAGReindex
    \/ handleRAGReindexDuringRun
    \/ Initialize
    \/ manPageIndexed
    \/ indexerDone
    \/ indexingCompleted
    \/ indexingTimedOut
    \/ writeTempFile
    \/ writeTempFileFails
    \/ renameTempFile
    \/ saveSystemState
    \/ writeStateFile

InitReindex ==
    /\ pkg = "commands"
    /\ mockMode = FALSE
    /\ execConfig = DefaultExecuteConfig
    /\ sandbox = NewDirectorySandbox(StartDir)
    /\ cwd = StartDir
    /\ last = Call("main", <<>>, DefaultExecuteConfig, Nothing)
    /\ InitRAG(Hosts)

SpecReindex == InitReindex /\ [][NextReindex]_vars

\* the prompts of a first run on a host with four manual pages: the
\* process is not restarted
NextPrompt ==
    \/ Prompt
    \/ Initialize
    \/ manPageIndexed
    \/ indexerDone
    \/ indexingCompleted
    \/ indexingTimedOut
    \/ writeTempFile
    \/ renameTempFile
    \/ saveSystemState
    \/ writeStateFile
    \/ DoEnhancePrompt
    \/ DoBuildCommandPrompt

InitPrompt == Init /\ pkg = "commands"

SpecPrompt == InitPrompt /\ [][NextPrompt]_vars
(***************************************************************************)
(* Calls of the vector store and of Retrieve, on a host whose manual pages *)
(* are those of rm and xcmd.                                               *)
(***************************************************************************)
SearchHosts == { {pageRm, pageXcmd} }

SearchQueries ==
    { <<"r","m">>, <<"r","m"," ","f","i","l","e","s">>, <<"r","e","m","o","v","e"," ","o","l","d"," ","f","i","l","e","s">>, <<"x","c","m","d">> }

\* Search's limit: GetRelevantCommands asks for twice its maxResults of 3
Limits == {1, 3, 6}

\* the names GetCommandInfo is asked about
CommandNames == { <<"r","m">>, <<"x","c","m","d">>, <<"z","i","p">> }

\* a call of VectorStore.Search
DoSearch ==
    /\ AtPrompt
    /\ goroutines.main = "running"
    /\ \E query \in SearchQueries, limit \in Limits :
       \E found \in Search(vectorStore, query, limit) :
           last' = Call("Search", query, execConfig,
                        Wrapped(NoVerdict, FALSE,
                                [err |-> IF found.err THEN Errorf("vector store not initialized")
                                         ELSE Nil,
                                 limit |-> limit, docs |-> found.docs,
                                 scores |-> found.scores]))
    /\ UNCHANGED <<pkg, mockMode, execConfig, sandbox, cwd, ragVars>>

\* a call of VectorStore.GetCommandInfo; info is the record returned, if any
DoGetCommandInfo ==
    /\ AtPrompt
    /\ goroutines.main = "running"
    /\ \E command \in CommandNames :
           last' = Call("GetCommandInfo", command, execConfig,
                        Wrapped(NoVerdict, FALSE,
                                [err |-> IF GetCommandInfo(vectorStore, command).err
                                         THEN Errorf("no information found") ELSE Nil,
                                 info |-> IF GetCommandInfo(vectorStore, command).err THEN {}
                                          ELSE {GetCommandInfo(vectorStore, command).info}]))
    /\ UNCHANGED <<pkg, mockMode, execConfig, sandbox, cwd, ragVars>>

\* a call of RAGSystem.Retrieve
DoRetrieve ==
    /\ AtPrompt
    /\ goroutines.main = "running"
    /\ \E query \in SearchQueries :
       \E result \in Retrieved(rs, vectorStore, query) :
           last' = Call("Retrieve", query, execConfig,
                        Wrapped(NoVerdict, FALSE, [err |-> Nil, commands |-> result.Commands]))
    /\ UNCHANGED <<pkg, mockMode, execConfig, sandbox, cwd, ragVars>>

NextSearch ==
    \/ Prompt
    \/ Exit
    \/ main
    \/ Initialize
    \/ manPageIndexed
    \/ indexerDone
    \/ indexingCompleted
    \/ indexingTimedOut
    \/ writeTempFile
    \/ renameTempFile
    \/ saveSystemState
    \/ writeStateFile
    \/ DoSearch
    \/ DoGetCommandInfo
    \/ DoRetrieve

InitSearch ==
    /\ pkg = "commands"
    /\ mockMode = FALSE
    /\ execConfig = DefaultExecuteConfig
    /\ sandbox = NewDirectorySandbox(StartDir)
    /\ cwd = StartDir
    /\ last = Call("main", <<>>, DefaultExecuteConfig, Nothing)
    /\ InitRAG(SearchHosts)

SpecSearch == InitSearch /\ [][NextSearch]_vars

(***************************************************************************)
(* handleCmdCommand, from the model's response on.  The replies to its     *)
(* prompts are inputs; the prompts that only print (the command breakdown, *)
(* the explanation) are left out.                                          *)
(***************************************************************************)
\* the first validation and, for unmatched quotes, the retry after
\* FixUnmatchedQuotes: [command, err]
ValidateWithRetry(command) ==
    TheOne({IF first.err = UnmatchedQuotes /\ FixUnmatchedQuotes(command) # command
            THEN ValidateAndCleanCommand(FixUnmatchedQuotes(command))
            ELSE first :
               first \in {ValidateAndCleanCommand(command)}})

\* a handler that goes on with the repaired command when the user does not
\* supply a valid one
manualEditGoesOn(command, checked, answers) ==
    IF checked.err = Nil THEN [ok |-> TRUE, command |-> checked.command, prompts |-> <<>>]
    ELSE IF ~AskForConfirmation(answers.edit)
    THEN [ok |-> TRUE, command |-> command, prompts |-> << <<"edit", answers.edit>> >>]
    ELSE [ok |-> TRUE,
          command |-> IF ValidateAndCleanCommand(TrimSpace(answers.edited)).err = Nil
                      THEN ValidateAndCleanCommand(TrimSpace(answers.edited)).command
                      ELSE command,
          prompts |-> << <<"edit", answers.edit>>, <<"editor", answers.edited>> >>]

\* what handleCmdCommand does with the result of the validation: the command
\* it goes on with, or the reason it returns; with the prompts it has shown
\* and the replies
manualEdit(command, checked, answers) ==
    IF checked.err = Nil THEN [ok |-> TRUE, command |-> checked.command, prompts |-> <<>>]
    ELSE IF ~AskForConfirmation(answers.edit)
    THEN [ok |-> FALSE, command |-> <<>>, prompts |-> << <<"edit", answers.edit>> >>]
    ELSE [ok |-> /\ TrimSpace(answers.edited) # <<>>
                 /\ ValidateAndCleanCommand(TrimSpace(answers.edited)).err = Nil,
          command |-> IF TrimSpace(answers.edited) = <<>> THEN <<>>
                      ELSE ValidateAndCleanCommand(TrimSpace(answers.edited)).command,
          prompts |-> << <<"edit", answers.edit>>, <<"editor", answers.edited>> >>]

\* the "manual fix" of handleCmdCommand for a command that holds .go and not
\* *.go: [command, prompts]
applyManualFix(command, answers) ==
    IF ~(Contains(command, <<".","g","o">>) /\ ~Contains(command, <<"*",".","g","o">>))
    THEN [command |-> command, prompts |-> <<>>]
    ELSE [command |-> IF AskForConfirmation(answers.applyFix)
                      THEN TheOne({ReplaceAll(second, <<"\"",".","g","o">>, <<"\"","*",".","g","o">>) :
                                      second \in {ReplaceAll(first, <<"'",".","g","o">>, <<"'","*",".","g","o">>) :
                                          first \in {ReplaceAll(command, <<".","g","o">>,
                                                                <<"*",".","g","o">>)}}})
                      ELSE command,
          prompts |-> << <<"applyFix", answers.applyFix>> >>]

\* the end of handleCmdCommand: the two confirmations and WrapCommand
executeConfirmed(p, ds, config, command, answers, runOk) ==
    IF hasSyntaxErrors(command) /\ ~AskForConfirmation(answers.anyway)
    THEN [wrapped |-> FALSE, did |-> Nothing, prompts |-> << <<"anyway", answers.anyway>> >>]
    ELSE [wrapped |-> AskForConfirmation(answers.execute),
          did |-> IF AskForConfirmation(answers.execute)
                  THEN WrapCommand(p, ds, command, config, answers.dangerous, runOk)
                  ELSE Nothing,
          prompts |-> (IF hasSyntaxErrors(command) THEN << <<"anyway", answers.anyway>> >>
                       ELSE <<>>)
                      \o << <<"execute", answers.execute>> >>]

\* what a run of handleCmdCommand did: the command after each stage (empty
\* when the stage was not reached), the error of the validation, the prompts
\* shown with their replies, whether WrapCommand was called and what it did
CmdRun(extracted, fixed, checked, edited, final, prompts, end) ==
    Wrapped(end.did.verdict, end.did.called,
            [err |-> end.did.outcome.err, spawned |-> end.did.outcome.spawned,
             asked |-> end.did.outcome.asked, extracted |-> extracted, fixed |-> fixed,
             validation |-> checked.err, validated |-> edited.command, final |-> final,
             prompts |-> prompts \o end.prompts, wrapped |-> end.wrapped])

NotExecuted == [wrapped |-> FALSE, did |-> Nothing, prompts |-> <<>>]

NotValidated == [command |-> <<>>, err |-> Nil]

\* the model's responses
AiResponses ==
    { <<"\"","f","i","n","d"," ","."," ","-","n","a","m","e"," ","'",".","g","o","'","\"">>,
      <<"f","i","n","d"," ","."," ","-","n","a","m","e"," ","'","*",".","g","o","'">>,
      <<"f","i","n","d"," ","."," ","-","n","a","m","e"," ",".","g","o">>,
      <<"l","s"," ","-","l","a">>,
      <<"c","a","t"," ","m","a","i","n",".","g","o">>,
      <<Backtick,Backtick,Backtick,"b","a","s","h","\n","l","s"," ","-","l","a","\n",Backtick,Backtick,Backtick>>,
      <<"#"," ","r","e","m","o","v","e","s"," ","e","v","e","r","y","t","h","i","n","g","\n","r","m"," ","-","r","f"," ","/">>,
      <<"e","c","h","o"," ","'","h","i">>,
      <<"m","v"," ","a"," ","b">>,
      <<"l","s"," ",")">>,
      <<"e","c","h","o"," ","a",")"," ","b">>,
      <<"#"," ","n","o","t","h","i","n","g">> }

\* what the user types at the y/N prompts of the handler and in the editor
YesNo == { <<"y">>, <<"n">> }

Edits == { <<>>, <<"l","s"," ","-","l","a">>, <<"r","m"," ","-","r","f"," ","/">> }

CmdAnswers ==
    [edit : YesNo, edited : Edits, applyFix : YesNo, anyway : YesNo, execute : YesNo,
     dangerous : YesNo]

\* handleCmdCommand once the model has responded
handleCmdCommand ==
    /\ AtPrompt
    /\ \E aiResponse \in AiResponses :
       \E extracted \in {ExtractCommand(aiResponse)} :
       \E fixed \in {attemptCommandFix(extracted)} :
       \E checked \in {ValidateWithRetry(fixed)} :
       \E answers \in CmdAnswers, runOk \in BOOLEAN :
       \E edited \in {manualEdit(fixed, checked, answers)} :
       \E patched \in {applyManualFix(edited.command, answers)} :
           last' = Call("handleCmdCommand", aiResponse, execConfig,
                        IF extracted = <<>>
                        THEN CmdRun(<<>>, <<>>, NotValidated, NotValidated, <<>>, <<>>,
                                    NotExecuted)
                        ELSE IF ~edited.ok
                        THEN CmdRun(extracted, fixed, checked, NotValidated, <<>>,
                                    edited.prompts, NotExecuted)
                        ELSE CmdRun(extracted, fixed, checked, edited, patched.command,
                                    edited.prompts \o patched.prompts,
                                    executeConfirmed(pkg, sandbox, execConfig, patched.command,
                                                     answers, runOk)))
    /\ UNCHANGED <<pkg, mockMode, execConfig, sandbox, cwd, ragVars>>

\* the commands given to the repair pass alone
RepairInputs ==
    { <<"f","i","n","d"," ","."," ","-","n","a","m","e"," ","'","*",".","g","o","'">>, <<"f","i","n","d"," ","."," ","-","n","a","m","e"," ","'",".","g","o">>, <<"f","i","n","d"," ","."," ","-","n","a","m","e"," ",".","g","o">>,
      <<"f","i","n","d"," ","."," ","-","n","a","m","e"," ","'",".","p","y","'">>, <<"f","i","n","d"," ","."," ","-","n","a","m","e"," ","\"",".","r","s","\"">>, <<"f","i","n","d"," ","."," ","-","n","a","m","e"," ","\"","*",".","g","o">>,
      <<"g","i","t"," ","f","i","n","d"," ","."," ","-","n","a","m","e"," ","'",".","m","d","'">>, <<"l","s"," ","-","l","a">>, <<"l","s"," ",")">>, <<"e","c","h","o"," ","h","i",")",";">>, <<"e","c","h","o"," ","'","h","i">> }

\* attemptCommandFix applied to a command, and again to its result
DoAttemptCommandFix ==
    /\ AtPrompt
    /\ \E command \in RepairInputs :
       \E fixed \in {attemptCommandFix(command)} :
           last' = Call("attemptCommandFix", command, execConfig,
                        Wrapped(NoVerdict, FALSE,
                                [err |-> Nil, fixed |-> fixed,
                                 again |-> attemptCommandFix(fixed)]))
    /\ UNCHANGED <<pkg, mockMode, execConfig, sandbox, cwd, ragVars>>

\* the commands given to ExecuteCommand: those of the gate and two dangerous
\* ones with an open quote
ConfirmCommands == Commands \cup { <<"m","v"," ","'","a","'"," ","'","b">>, <<"c","h","m","o","d"," ","6","4","4"," ","\"","a","\""," ","\"","b">> }

\* a call of package commands' ExecuteCommand, with the reply the user has
\* ready for its prompt
DoConfirmedExecuteCommand ==
    /\ AtPrompt
    /\ \E command \in ConfirmCommands, config \in Configs, response \in Responses,
          runOk \in BOOLEAN :
       \E outcome \in {ExecuteCommand(command, config, response, runOk)} :
           last' = Call("commands.ExecuteCommand", command, config,
                        Wrapped(NoVerdict, TRUE,
                                [err |-> outcome.err, spawned |-> outcome.spawned,
                                 asked |-> outcome.asked, response |-> response]))
    /\ UNCHANGED <<pkg, mockMode, execConfig, sandbox, cwd, ragVars>>

\* the commands given to the two ValidateAndCleanCommand functions alone
CleanInputs ==
    { <<"f","i","n","d"," ","."," ","-","n","a","m","e"," ","'","*",".","g","o","'">>, <<"l","s"," ","*",".","t","x","t">>, <<"l","s"," ","-","l","a">>, <<"c","a","t"," ","m","a","i","n",".","g","o">>,
      <<"e","c","h","o"," ","\"","a"," ","b","\"">>, <<" ","l","s"," ","-","l","a"," ">>, <<"'","l","s","'">>, <<"*","*","l","s","*","*">>, <<"e","c","h","o"," ","'","h","i">>,
      <<"r","m"," ","-","r","f"," ","/">>, <<"l","s","\n","p","w","d">> }

\* a call of ValidateAndCleanCommand, of package commands or of package main
DoValidateAndCleanCommand ==
    /\ AtPrompt
    /\ \E command \in CleanInputs, package \in Packages :
       \E cleaned \in {IF package = "main" THEN MainValidateAndCleanCommand(command)
                       ELSE ValidateAndCleanCommand(command)} :
           last' = Call("ValidateAndCleanCommand", command, execConfig,
                        Wrapped(NoVerdict, FALSE,
                                [err |-> cleaned.err, package |-> package,
                                 cleaned |-> cleaned.command]))
    /\ UNCHANGED <<pkg, mockMode, execConfig, sandbox, cwd, ragVars>>

NextCmd ==
    \/ Prompt
    \/ handleCmdCommand
    \/ DoAttemptCommandFix
    \/ DoConfirmedExecuteCommand
    \/ DoValidateAndCleanCommand

InitCmd == Init /\ pkg = "commands"

SpecCmd == InitCmd /\ [][NextCmd]_vars

(***************************************************************************)
(* A run of MANIndexer.IndexAvailableManPages, goroutine by goroutine:     *)
(* findMANPages sends the names it discovers on pageChan and closes it,    *)
(* the workers turn names into pages and send them on resultChan, one      *)
(* goroutine waits for the workers and closes resultChan, and the call     *)
(* itself ranges over resultChan.  The workers run the same code and are   *)
(* counted by position.                                                    *)
(***************************************************************************)
workerCount == 6

\* the capacity of pageChan and of resultChan (100 in the code)
chanCapacity == 1

\* the entries of commonCommands that a name of the model can equal
commonCommands == << <<"l","s">>, <<"c","p">>, <<"m","v">>, <<"c","a","t">>, <<"r","m">>, <<"z","i","p">> >>

usefulPatterns ==
    << <<"g","i","t","-">>, <<"d","o","c","k","e","r","-">>, <<"k","u","b","e","c","t","l","-">>, <<"a","w","s","-">>, <<"g","c","l","o","u","d","-">>,
       <<"s","y","s","t","e","m","c","t","l">>, <<"j","o","u","r","n","a","l","c","t","l">>, <<"l","o","g","r","o","t","a","t","e">>, <<"c","r","o","n","t","a","b">> >>

isUsefulCommand(command) ==
    /\ Len(command) >= 2
    /\ \A i \in 1..Len(command) :
           \/ IsLower(command[i]) \/ IsUpper(command[i])
           \/ command[i] \in {"0", "1", "2", "3", "4", "5", "6", "7", "8", "9"}
           \/ command[i] \in {"-", "_"}
    /\ \/ \E k \in 1..Len(commonCommands) : ToLower(command) = commonCommands[k]
       \/ \E k \in 1..Len(usefulPatterns) : Contains(command, usefulPatterns[k])

\* tryManKEnhanced, given the names at the head of the lines of man -k (an
\* empty list when man -k fails): every name of two characters or more is
\* sent, once for the names the method has seen
tryManKEnhanced(listed) ==
    removeDuplicates(SelectSeq(listed, LAMBDA command : Len(command) > 1))

\* tryDirectoryScan, given the names of the files of the manual directories
\* up to the first dot: the useful ones are sent, once for the names the
\* method has seen
tryDirectoryScan(found) ==
    removeDuplicates(SelectSeq(found, LAMBDA command :
                                          Len(command) > 1 /\ isUsefulCommand(command)))

\* what the two methods of discovery find on the hosts of the model: a name
\* is twice in a list when it has pages in two sections
Discoveries ==
    { [listed |-> <<>>, found |-> <<>>],
      [listed |-> <<>>, found |-> << <<"l","s">>, <<"c","p">>, <<"x">>, <<"l","s">> >>],
      [listed |-> << <<"l","s">>, <<"x","c","m","d">>, <<"c","p">>, <<"z","i","p">> >>,
       found |-> << <<"c","p">>, <<"l","s">>, <<"x","c","m","d">> >>],
      [listed |-> << <<"c","a","t">>, <<"c","p">>, <<"l","s">>, <<"m","v">>, <<"r","m">> >>,
       found |-> << <<"l","s">>, <<"c","a","t">>, <<"r","m">>, <<"m","v">> >>] }

\* the manual pages of the hosts of the indexing runs
IndexHosts == { {pageLs, pageCp, pageMv, pageCat, pageRm, pageXcmd} }

\* the call up to its loop: ensureIndexDir, the channels, the workers, the
\* closing goroutine and findMANPages
startIndexing ==
    /\ goroutines.indexer = "running"
    /\ run.at = "none"
    /\ \E dirOk \in BOOLEAN, d \in Discoveries :
           IF dirOk
           THEN /\ run' = Run("range", Nil,
                              tryManKEnhanced(d.listed) \o tryDirectoryScan(d.found),
                              [receiving |-> workerCount,
                               sending |-> [page \in disk.manPages |-> 0],
                               returned |-> 0])
                /\ UNCHANGED goroutines
           ELSE /\ run' = [NoRun EXCEPT !.at = "returned",
                                        !.err = Errorf("failed to create index directory")]
                /\ goroutines' = [goroutines EXCEPT !.indexer = "done"]
    /\ UNCHANGED <<pkg, mockMode, execConfig, sandbox, cwd, last, rs, vectorStore, indexer, disk, index, mu>>

\* findMANPages sends the next name, when pageChan has room
findMANPagesSend ==
    /\ run.at = "range"
    /\ run.discovery = "running"
    /\ run.names # <<>>
    /\ Len(run.pageChan) < chanCapacity
    /\ run' = [run EXCEPT !.pageChan = Append(@, Head(run.names)), !.names = Tail(@)]
    /\ UNCHANGED <<pkg, mockMode, execConfig, sandbox, cwd, last, rs, vectorStore, indexer,
                   disk, goroutines, index, mu>>

\* a findMANPages that returns and leaves pageChan open
findMANPagesLeavesOpen(r) == [r EXCEPT !.discovery = "returned"]

\* the return of findMANPages, with its deferred close(pageChan)
findMANPagesReturns(r) == [r EXCEPT !.discovery = "returned", !.pageClosed = TRUE]

findMANPagesReturn ==
    /\ run.at = "range"
    /\ run.discovery = "running"
    /\ run.names = <<>>
    /\ run' = findMANPagesReturns(run)
    /\ UNCHANGED <<pkg, mockMode, execConfig, sandbox, cwd, last, rs, vectorStore, indexer,
                   disk, goroutines, index, mu>>

\* a worker receives a name: it goes on to the next when the name is not
\* useful or man fails, having no page of that name, and else has the page
\* to send
manPageWorkerReceive ==
    /\ run.at = "range"
    /\ run.workers.receiving > 0
    /\ run.pageChan # <<>>
    /\ LET command == Head(run.pageChan)
           pages == {page \in disk.manPages : page.Name = command}
       IN  IF isUsefulCommand(command) /\ pages # {}
           THEN \E page \in pages :
                    run' = [run EXCEPT !.pageChan = Tail(@),
                                       !.handed = Append(@, command),
                                       !.workers.receiving = @ - 1,
                                       !.workers.sending[page] = @ + 1]
           ELSE run' = [run EXCEPT !.pageChan = Tail(@), !.handed = Append(@, command)]
    /\ UNCHANGED <<pkg, mockMode, execConfig, sandbox, cwd, last, rs, vectorStore, indexer,
                   disk, goroutines, index, mu>>

\* a worker sends its page, when resultChan has room
manPageWorkerSend ==
    /\ run.at = "range"
    /\ Len(run.resultChan) < chanCapacity
    /\ \E page \in DOMAIN run.workers.sending :
           /\ run.workers.sending[page] > 0
           /\ run' = [run EXCEPT !.resultChan = Append(@, page),
                                 !.workers.sending[page] = @ - 1,
                                 !.workers.receiving = @ + 1]
    /\ UNCHANGED <<pkg, mockMode, execConfig, sandbox, cwd, last, rs, vectorStore, indexer,
                   disk, goroutines, index, mu>>

\* a worker finds pageChan closed and empty: it returns, with wg.Done
manPageWorkerReturn ==
    /\ run.at = "range"
    /\ run.workers.receiving > 0
    /\ run.pageChan = <<>>
    /\ run.pageClosed
    /\ run' = [run EXCEPT !.workers.receiving = @ - 1, !.workers.returned = @ + 1,
                          !.wg = @ - 1]
    /\ UNCHANGED <<pkg, mockMode, execConfig, sandbox, cwd, last, rs, vectorStore, indexer,
                   disk, goroutines, index, mu>>

\* wg.Wait returns and resultChan is closed
closeResultChan ==
    /\ run.at = "range"
    /\ run.closer = "waiting"
    /\ run.wg = 0
    /\ run' = [run EXCEPT !.closer = "returned", !.resultCloses = @ + 1]
    /\ UNCHANGED <<pkg, mockMode, execConfig, sandbox, cwd, last, rs, vectorStore, indexer,
                   disk, goroutines, index, mu>>

\* a loop over resultChan that keeps only the page it has just received
pageCollectedOverwrites ==
    /\ run.at = "range"
    /\ run.resultChan # <<>>
    /\ indexer' = [indexer EXCEPT !.indexed = {Head(run.resultChan)}]
    /\ run' = [run EXCEPT !.resultChan = Tail(@), !.processed = @ + 1]
    /\ UNCHANGED <<pkg, mockMode, execConfig, sandbox, cwd, last, rs, vectorStore, disk,
                   goroutines, index, mu>>

\* the body of the loop over resultChan
pageCollected ==
    /\ run.at = "range"
    /\ run.resultChan # <<>>
    /\ LET page == Head(run.resultChan)
       IN  indexer' = [indexer EXCEPT
                          !.indexed = {p \in @ : p.Name # page.Name} \cup {page}]
    /\ run' = [run EXCEPT !.resultChan = Tail(@), !.processed = @ + 1]
    /\ UNCHANGED <<pkg, mockMode, execConfig, sandbox, cwd, last, rs, vectorStore, disk,
                   goroutines, index, mu>>

\* resultChan is closed and empty: the loop ends, saveIndex returns nil and
\* the goroutine of Initialize sends the result on done, which has room
indexingReturns ==
    /\ run.at = "range"
    /\ run.resultChan = <<>>
    /\ run.resultCloses > 0
    /\ run' = [run EXCEPT !.at = "returned"]
    /\ goroutines' = [goroutines EXCEPT !.indexer = "done"]
    /\ UNCHANGED <<pkg, mockMode, execConfig, sandbox, cwd, last, rs, vectorStore, indexer,
                   disk, index, mu>>

findMANPages == findMANPagesSend \/ findMANPagesReturn

manPageWorker == manPageWorkerReceive \/ manPageWorkerSend \/ manPageWorkerReturn

NextIndex ==
    \/ Initialize
    \/ startIndexing
    \/ findMANPagesSend
    \/ findMANPagesReturn
    \/ manPageWorkerReceive
    \/ manPageWorkerSend
    \/ manPageWorkerReturn
    \/ closeResultChan
    \/ pageCollected
    \/ indexingReturns

InitIndex ==
    /\ pkg = "commands"
    /\ mockMode = FALSE
    /\ execConfig = DefaultExecuteConfig
    /\ sandbox = NewDirectorySandbox(StartDir)
    /\ cwd = StartDir
    /\ last = Call("main", <<>>, DefaultExecuteConfig, Nothing)
    /\ InitRAG(IndexHosts)

\* every man call returns, and every goroutine that can take a step does
\* so in the end
SpecIndex ==
    /\ InitIndex
    /\ [][NextIndex]_vars
    /\ WF_vars(Initialize)
    /\ WF_vars(startIndexing)
    /\ WF_vars(findMANPages)
    /\ WF_vars(manPageWorker)
    /\ WF_vars(closeResultChan)
    /\ WF_vars(pageCollected \/ indexingReturns)

(***************************************************************************)
(* The vector store step by step: the goroutine of Initialize loads the    *)
(* vector index or indexes the pages, document by document, and the        *)
(* goroutine that /rag-reindex starts for IndexAvailableManPages reads the *)
(* store's statistics in hasExistingState.                                 *)
(***************************************************************************)
\* VectorStore.addToIndex: what a document adds to the inverted index
addToIndex(doc) == {<<word, doc.ID>> : word \in tokenize(doc.Content)}

\* the manual pages of the host
StorePages == {pageMv, pageCat}

\* what docChan delivers for the pages: processMANPage sends the documents
\* of every page
docChan(pages) == UNION {processMANPage(page) : page \in pages}

\* the vector index file an earlier process has left, when it ended after
\* the file was renamed and before the state file was opened
LeftIndex == [exists |-> TRUE, content |-> {docChan(StorePages)}]

\* Initialize without a state file, in tryLoadExistingIndex: loadVectorIndex
\* reads the file and unmarshals it into the document map; without a
\* readable file the indexer is started
loadVectorIndexUnmarshal ==
    /\ AtPrompt
    /\ goroutines.Initialize = "start"
    /\ ~Readable(disk.stateFile)
    /\ IF Readable(disk.vectorIndex)
       THEN /\ vectorStore' = [vectorStore EXCEPT
                                  !.documents = @ \cup DataOf(disk.vectorIndex)]
            /\ goroutines' = [goroutines EXCEPT !.Initialize = "loadReset"]
       ELSE /\ goroutines' = [goroutines EXCEPT !.Initialize = "indexing",
                                                !.indexer = "running"]
            /\ UNCHANGED vectorStore
    /\ UNCHANGED <<pkg, mockMode, execConfig, sandbox, cwd, last, rs, indexer, disk, run, index, mu>>

\* loadVectorIndex: vs.index = make(map[string][]string)
loadVectorIndexReset ==
    /\ AtPrompt
    /\ goroutines.Initialize = "loadReset"
    /\ index' = {}
    /\ goroutines' = [goroutines EXCEPT !.Initialize = "loadRebuild"]
    /\ UNCHANGED <<pkg, mockMode, execConfig, sandbox, cwd, last, rs, vectorStore, indexer, disk, run, mu>>

\* loadVectorIndex: the loop over the document map, a document at a time in
\* the order of the map
loadVectorIndexRebuild ==
    /\ AtPrompt
    /\ goroutines.Initialize = "loadRebuild"
    /\ \E doc \in vectorStore.documents :
           /\ ~(addToIndex(doc) \subseteq index)
           /\ index' = index \cup addToIndex(doc)
    /\ UNCHANGED <<pkg, mockMode, execConfig, sandbox, cwd, last, rs, vectorStore, indexer, disk, goroutines, run, mu>>

\* loadVectorIndex sets initialized and returns, and Initialize goes on to
\* saveSystemState
loadVectorIndexReturn ==
    /\ AtPrompt
    /\ goroutines.Initialize = "loadRebuild"
    /\ \A doc \in vectorStore.documents : addToIndex(doc) \subseteq index
    /\ vectorStore' = [vectorStore EXCEPT !.initialized = TRUE]
    /\ goroutines' = [goroutines EXCEPT !.Initialize = "saveState"]
    /\ UNCHANGED <<pkg, mockMode, execConfig, sandbox, cwd, last, rs, indexer, disk, run, index, mu>>

\* Initialize after its select has received from done, up to the loop of
\* IndexMANPages over docChan
IndexMANPagesStart ==
    /\ AtPrompt
    /\ goroutines.Initialize = "indexing"
    /\ goroutines.indexer = "done"
    /\ IF Cardinality(indexer.indexed) = 0
       THEN /\ rs' = [rs EXCEPT !.initialized = FALSE]
            /\ goroutines' = [goroutines EXCEPT !.Initialize = "saveState"]
       ELSE IF IndexMANPagesFails(indexer.indexed)
       THEN /\ rs' = [rs EXCEPT !.initialized = TRUE]
            /\ goroutines' = [goroutines EXCEPT !.Initialize = "saveState"]
       ELSE /\ goroutines' = [goroutines EXCEPT !.Initialize = "docChan"]
            /\ UNCHANGED rs
    /\ UNCHANGED <<pkg, mockMode, execConfig, sandbox, cwd, last, vectorStore, indexer, disk, run, index, mu>>

\* the loop of IndexMANPages receives a document and takes the lock
IndexMANPagesLock ==
    /\ AtPrompt
    /\ goroutines.Initialize = "docChan"
    /\ docChan(indexer.indexed) \ vectorStore.documents # {}
    /\ ~mu.writer
    /\ mu.readers = 0
    /\ mu' = [mu EXCEPT !.writer = TRUE]
    /\ goroutines' = [goroutines EXCEPT !.Initialize = "put"]
    /\ UNCHANGED <<pkg, mockMode, execConfig, sandbox, cwd, last, rs, vectorStore, indexer, disk, run, index>>

\* vs.documents[doc.ID] = doc
IndexMANPagesPut ==
    /\ AtPrompt
    /\ goroutines.Initialize = "put"
    /\ \E doc \in docChan(indexer.indexed) \ vectorStore.documents :
           vectorStore' = [vectorStore EXCEPT !.documents = @ \cup {doc}]
    /\ goroutines' = [goroutines EXCEPT !.Initialize = "addToIndex"]
    /\ UNCHANGED <<pkg, mockMode, execConfig, sandbox, cwd, last, rs, indexer, disk, run, index, mu>>

\* vs.addToIndex(doc), for the document that has just been put
IndexMANPagesAddToIndex ==
    /\ AtPrompt
    /\ goroutines.Initialize = "addToIndex"
    /\ index' = index \cup UNION {addToIndex(doc) : doc \in vectorStore.documents}
    /\ goroutines' = [goroutines EXCEPT !.Initialize = "Unlock"]
    /\ UNCHANGED <<pkg, mockMode, execConfig, sandbox, cwd, last, rs, vectorStore, indexer, disk, run, mu>>

\* vs.mu.Unlock()
IndexMANPagesUnlock ==
    /\ AtPrompt
    /\ goroutines.Initialize = "Unlock"
    /\ mu' = [mu EXCEPT !.writer = FALSE]
    /\ goroutines' = [goroutines EXCEPT !.Initialize = "docChan"]
    /\ UNCHANGED <<pkg, mockMode, execConfig, sandbox, cwd, last, rs, vectorStore, indexer, disk, run, index>>

\* docChan is closed and empty: IndexMANPages sets initialized and returns,
\* and saveVectorIndex opens its temporary file
IndexMANPagesReturn ==
    /\ AtPrompt
    /\ goroutines.Initialize = "docChan"
    /\ docChan(indexer.indexed) \subseteq vectorStore.documents
    /\ vectorStore' = [vectorStore EXCEPT !.initialized = TRUE]
    /\ disk' = [disk EXCEPT !.tempFile = Truncated]
    /\ goroutines' = [goroutines EXCEPT !.Initialize = "writeTemp",
                                        !.indexData = {vectorStore.documents}]
    /\ UNCHANGED <<pkg, mockMode, execConfig, sandbox, cwd, last, rs, indexer, run, index, mu>>

\* /rag-reindex: the state file is removed and a goroutine started for
\* IndexAvailableManPages, which calls hasExistingState
handleRAGReindexGo ==
    /\ AtPrompt
    /\ goroutines.main = "running"
    /\ goroutines.second = "none"
    /\ disk' = [disk EXCEPT !.stateFile = Absent]
    /\ goroutines' = [goroutines EXCEPT !.second = "hasExistingState"]
    /\ last' = Call("handleRAGReindex", <<>>, execConfig, Nothing)
    /\ UNCHANGED <<pkg, mockMode, execConfig, sandbox, cwd, rs, vectorStore, indexer, run, index, mu>>

\* hasExistingState: os.Stat finds the state file and IndexAvailableManPages
\* returns, or it goes on to the store's statistics
hasExistingStateStat ==
    /\ goroutines.second = "hasExistingState"
    /\ goroutines' = [goroutines EXCEPT
                         !.second = IF disk.stateFile.exists THEN "none" ELSE "RLock"]
    /\ UNCHANGED <<pkg, mockMode, execConfig, sandbox, cwd, last, rs, vectorStore, indexer, disk, run, index, mu>>

\* GetStats: vs.mu.RLock()
GetStatsRLock ==
    /\ goroutines.second = "RLock"
    /\ ~mu.writer
    /\ mu' = [mu EXCEPT !.readers = @ + 1]
    /\ goroutines' = [goroutines EXCEPT !.second = "GetStats"]
    /\ UNCHANGED <<pkg, mockMode, execConfig, sandbox, cwd, last, rs, vectorStore, indexer, disk, run, index>>

\* GetStats reads the document map and the inverted index and returns, with
\* its deferred RUnlock; hasExistingState is true with a document in the
\* store, and else IndexAvailableManPages starts Initialize
GetStatsReturn ==
    /\ goroutines.second = "GetStats"
    /\ mu' = [mu EXCEPT !.readers = @ - 1]
    /\ goroutines' = [goroutines EXCEPT
                         !.second = IF Cardinality(vectorStore.documents) > 0
                                    THEN "none" ELSE "start"]
    /\ UNCHANGED <<pkg, mockMode, execConfig, sandbox, cwd, last, rs, vectorStore, indexer, disk, run, index>>

NextStore ==
    \/ Prompt
    \/ loadVectorIndexUnmarshal
    \/ loadVectorIndexReset
    \/ loadVectorIndexRebuild
    \/ loadVectorIndexReturn
    \/ manPageIndexed
    \/ indexerDone
    \/ IndexMANPagesStart
    \/ IndexMANPagesLock
    \/ IndexMANPagesPut
    \/ IndexMANPagesAddToIndex
    \/ IndexMANPagesUnlock
    \/ IndexMANPagesReturn
    \/ writeTempFile
    \/ writeTempFileFails
    \/ renameTempFile
    \/ saveSystemState
    \/ writeStateFile
    \/ handleRAGReindexGo
    \/ hasExistingStateStat
    \/ GetStatsRLock
    \/ GetStatsReturn

\* a process that has just started where an earlier one has run or none
InitStore ==
    /\ pkg = "commands"
    /\ mockMode = FALSE
    /\ execConfig = DefaultExecuteConfig
    /\ sandbox = NewDirectorySandbox(StartDir)
    /\ cwd = StartDir
    /\ last = Call("main", <<>>, DefaultExecuteConfig, Nothing)
    /\ rs = NewSystem
    /\ vectorStore = NewVectorStore
    /\ indexer = NewMANIndexer
    /\ \E file \in {Absent, LeftIndex} :
           disk = [stateFile |-> Absent, vectorIndex |-> file, tempFile |-> Absent,
                   manPages |-> StorePages]
    /\ goroutines = IndexAvailableManPages(NewVectorStore, disk)
    /\ run = NoRun
    /\ index = {}
    /\ mu = Unlocked

SpecStore == InitStore /\ [][NextStore]_vars

(***************************************************************************)
(* The properties.  Each is stated over last, the call the loop has just   *)
(* made, and so speaks of the result of every call of every behaviour.     *)
(***************************************************************************)
Executed == last.op = "ExecuteCommand"

WrappedCall == last.op = "WrapCommand"

Spawned == last.outcome.spawned # <<>>

BlockedForSafety == Errorf("command blocked for safety")

\* C1: whenever the configuration has DryRun set, ExecuteCommand spawns no
\* subprocess, for every command, every AutoConfirm and SafeMode and every
\* answer, also after /dry-run or mock mode set the flag.
C1_DryRunNeverSpawns ==
    (Executed /\ last.config.DryRun) => ~Spawned

\* C2: for every command the blocklist matches, with SafeMode on, package
\* commands' ExecuteCommand returns the blocked-for-safety error, asks for no
\* confirmation and spawns nothing, whatever AutoConfirm, DryRun and the answer.
C2_BlocklistBeforeConfirmation ==
    (Executed /\ pkg = "commands" /\ last.config.SafeMode /\ ~IsCommandSafe(last.command))
        => /\ last.outcome.err = BlockedForSafety
           /\ ~Spawned
           /\ ~last.outcome.asked

\* a blocklisted command that is also potentially dangerous was blocked although
\* the configuration asked for a dry run without confirmation
C2_Witness ==
    /\ Executed
    /\ pkg = "commands"
    /\ last.command = cmdMkfs
    /\ last.config = [DryRun |-> TRUE, AutoConfirm |-> TRUE, SafeMode |-> TRUE]
    /\ last.outcome = Outcome(BlockedForSafety, <<>>, FALSE)

\* substring search without regard to letter case
ContainsFold(s, substr) == Contains(ToLower(s), ToLower(substr))

MatchesBlocklistFold(command) ==
    \E k \in 1..Len(dangerousPatterns) : ContainsFold(command, dangerousPatterns[k])

\* C3: with SafeMode on, a command is rejected whenever it contains a blocklist
\* entry as a substring, both compared without regard to letter case; this for
\* every entry, chmod -R 777 / included.
C3_BlocklistIgnoresCase ==
    (Executed /\ last.config.SafeMode /\ MatchesBlocklistFold(last.command))
        => /\ ~IsCommandSafe(last.command)
           /\ pkg = "commands" => (last.outcome.err = BlockedForSafety /\ ~Spawned)

\* the four malicious patterns as the documentation gives them; the first three
\* are the expressions of the code, the fourth is >.*/dev/sd[a-z]
documentedMaliciousPatterns ==
    SubSeq(maliciousPatterns, 1, 3)
        \o << Lit(<<">">>) \o NotStar({"\n"}) \o Lit(<<"/","d","e","v","/","s","d">>)
                  \o One(LetterRange("a", "z", FALSE)) >>

\* C4: ValidateCommand rejects every command that matches one of the four
\* malicious patterns, a redirection followed later by /dev/sd and a letter
\* included (echo x > /dev/sdb).
C4_MaliciousPatternsRejected ==
    (/\ last.op = "ValidateCommand"
     /\ \E k \in 1..Len(documentedMaliciousPatterns) :
            MatchString(documentedMaliciousPatterns[k], last.command))
        => last.outcome.err = Errorf("command contains dangerous pattern")

\* C5: sudo rm -rf / is never run: handed to the executor directly or through
\* WrapCommand, in every sandbox mode, with SafeMode on or off, an error is
\* returned and no subprocess is spawned.
C5_SudoRmRootNeverRuns ==
    ((Executed \/ WrappedCall) /\ last.command = cmdSudoRmRoot)
        => (last.outcome.err # Nil /\ ~Spawned)

\* C6: in CurrentDir or Strict mode, whenever the sandbox's ValidateCommand
\* rejects the command, WrapCommand returns the sandbox-violation error with the
\* reason and does not call the executor; rm -rf ../other in /home/alice/proj is
\* rejected as an attempt to escape the sandbox directory.
C6_RejectedNeverReachesExecutor ==
    /\ (/\ WrappedCall
        /\ sandbox.mode # "SandboxDisabled"
        /\ ~SandboxValidateCommand(sandbox, last.command).valid)
           => /\ last.outcome.err =
                     Wrap("sandbox violation",
                          Errorf(SandboxValidateCommand(sandbox, last.command).reason))
              /\ ~last.called
              /\ ~Spawned
    /\ (/\ WrappedCall
        /\ sandbox.mode # "SandboxDisabled"
        /\ sandbox.allowedDir = StartDir
        /\ last.command = cmdRmParent)
           => /\ last.verdict =
                     Verdict(FALSE, "Command attempts to escape sandbox directory")
              /\ ~last.called

\* rm -rf ../other was refused in CurrentDir mode in /home/alice/proj
C6_Witness ==
    /\ WrappedCall
    /\ sandbox = NewDirectorySandbox(StartDir)
    /\ last.command = cmdRmParent
    /\ ~last.called
    /\ last.outcome =
           Outcome(<<"sandbox violation", "Command attempts to escape sandbox directory">>,
                   <<>>, FALSE)

\* C7: for every command ValidateCommand allows in CurrentDir mode, every path
\* argument extractFileArguments extracts resolves to the allowed directory or a
\* location under it.
C7_AllowedArgumentsStayInside ==
    (WrappedCall /\ sandbox.mode = "SandboxCurrentDir" /\ last.verdict.valid)
        => LET args == extractFileArguments(ToLower(last.command))
           IN  \A i \in 1..Len(args) : ~isOutsideSandbox(sandbox, args[i])

\* a whitespace-separated token that begins with / and a character other than /
HasAbsoluteToken(command) ==
    LET words == Fields(command)
    IN  \E i \in 1..Len(words) :
            Len(words[i]) >= 2 /\ words[i][1] = "/" /\ words[i][2] # "/"

\* C8: in CurrentDir or Strict mode, ValidateCommand rejects as absolute path
\* traversal every command with a whitespace-separated token that begins with /
\* and a non-slash character, wherever the token stands, the first included.
C8_AbsoluteTokenRejected ==
    (WrappedCall /\ sandbox.mode # "SandboxDisabled" /\ HasAbsoluteToken(last.command))
        => last.verdict = Verdict(FALSE, "Command contains absolute path traversal")

HasEscapePattern(command) ==
    \/ Contains(command, <<"c","d"," ",".",".">>)
    \/ Contains(command, <<".",".","/">>)
    \/ Contains(command, <<".",".","\\">>)

\* the leading word is exactly one of the observational commands
LeadsWithObservational(command) ==
    LET words == Fields(command)
    IN  words # <<>> /\ \E k \in 1..Len(safePatterns) : words[1] = safePatterns[k]

\* C9: in CurrentDir or Strict mode, a command with a directory-escape pattern,
\* not already refused for an absolute path, is rejected as an attempt to escape
\* the sandbox directory unless its leading word is exactly an observational
\* command; printf and lsof are not.
C9_OnlyExactObservationalExempt ==
    (/\ WrappedCall
     /\ sandbox.mode # "SandboxDisabled"
     /\ HasEscapePattern(ToLower(last.command))
     /\ ~containsAbsolutePathTraversal(ToLower(last.command))
     /\ ~LeadsWithObservational(ToLower(last.command)))
        => last.verdict = Verdict(FALSE, "Command attempts to escape sandbox directory")

\* C10: in CurrentDir or Strict mode ResetToOriginal, unless the directory change
\* itself fails, returns no error and leaves the allowed directory equal to the
\* original directory, also after ChangeDirectory moved into subdirectories.
C10_ResetRestoresOriginal ==
    (/\ last.op = "ResetToOriginal"
     /\ sandbox.mode # "SandboxDisabled"
     /\ last.outcome.err # Errorf("chdir"))
        => (last.outcome.err = Nil /\ sandbox.allowedDir = sandbox.originalDir)

\* dir is root or lies under it
IsWithin(dir, root) == dir = root \/ HasPrefix(dir, root \o Sep)

\* C11: after any sequence of SetMode, ChangeDirectory and ResetToOriginal calls,
\* failing or not, in any mode, the original directory is the start-up directory
\* and the allowed directory is the original directory or a descendant of it.
C11_AllowedWithinOriginal ==
    /\ sandbox.originalDir = StartDir
    /\ IsWithin(sandbox.allowedDir, sandbox.originalDir)

\* the allowed directory has moved two levels down and the mode was changed
C11_Witness ==
    /\ sandbox.allowedDir = <<"/","h","o","m","e","/","a","l","i","c","e","/","p","r","o","j","/","s","u","b","/","d","e","e","p">>
    /\ sandbox.mode = "SandboxStrict"
    /\ last.op = "ChangeDirectory"
    /\ last.outcome.err = Nil

\* the directory ChangeDirectory is asked for, resolved against the allowed
\* directory
ResolvedDir(ds, newDir) ==
    IF IsAbs(newDir) THEN Clean(newDir) ELSE Clean(ds.allowedDir \o Sep \o newDir)

\* C12: in CurrentDir or Strict mode, a ChangeDirectory to a path that resolves
\* outside the allowed directory returns an error, and every ChangeDirectory that
\* returns an error, the failed directory change included, leaves the working
\* directory, the allowed directory, the original directory and the mode as they
\* were.
C12_FailedChangeDirectoryKeepsState ==
    [][(last'.op = "ChangeDirectory" /\ sandbox.mode # "SandboxDisabled")
        => /\ ~IsWithin(ResolvedDir(sandbox, last'.command), sandbox.allowedDir)
                => last'.outcome.err # Nil
           /\ last'.outcome.err # Nil => (cwd' = cwd /\ sandbox' = sandbox)]_vars

\* cd .. was refused in Strict mode from a subdirectory, and nothing moved
C12_Witness ==
    /\ last.op = "ChangeDirectory"
    /\ last.command = <<".",".">>
    /\ last.outcome.err = Errorf("cannot change to directory outside sandbox")
    /\ sandbox.mode = "SandboxStrict"
    /\ sandbox.allowedDir = <<"/","h","o","m","e","/","a","l","i","c","e","/","p","r","o","j","/","s","u","b">>
    /\ cwd = <<"/","h","o","m","e","/","a","l","i","c","e","/","p","r","o","j","/","s","u","b">>


(***************************************************************************)
(* The retrieval system's persistence.                                     *)
(***************************************************************************)
\* the state file can be read, has the current version and says initialised
RecordsInitialized(d) ==
    /\ Readable(d.stateFile)
    /\ DataOf(d.stateFile).Version = indexVersion
    /\ DataOf(d.stateFile).Initialized

\* the vector index file holds a complete, non-empty index
LoadableIndex(d) == Readable(d.vectorIndex) /\ DataOf(d.vectorIndex) # {}

\* no goroutine of the process is at work on the retrieval system
Settled == goroutines.main = "running" /\ goroutines.Initialize \in {"none", "returned"}

\* C13: in a process that finds a state file of version 1.0 with initialized
\* true and a loadable vector index, once start-up has settled the system is
\* ready: IsInitialized is true and the vector store is loaded, also in a run
\* that follows a successful indexing run.
C13_RestartIsReady ==
    (Settled /\ RecordsInitialized(disk) /\ LoadableIndex(disk))
        => (rs.initialized /\ vectorStore.initialized)

\* Initialize has loaded a non-empty vector index that no state file vouched
\* for, without running the indexer
OrphanIndexLoaded ==
    /\ goroutines.indexer = "idle"
    /\ vectorStore.initialized
    /\ vectorStore.documents # {}

\* C14: when Initialize, having loaded a non-empty orphan vector index, has
\* written its fresh state file and returns, IsInitialized is true and the
\* state file on disk records initialized=true.
C14_OrphanIndexDeclaredReady ==
    [][(/\ goroutines.Initialize = "writeState"
        /\ goroutines'.Initialize = "returned"
        /\ OrphanIndexLoaded)
           => (rs'.initialized /\ RecordsInitialized(disk'))]_vars

\* C15: whenever the state file on disk records initialized=true, the vector
\* index file holds a complete, non-empty index, on every path through
\* Initialize, the one where building or saving the index failed included.
C15_InitializedStateHasIndex == RecordsInitialized(disk) => LoadableIndex(disk)

\* C16: the state file and the vector index file are replaced atomically:
\* neither is ever seen without a complete document, except the state file
\* while a running process is writing it; a process that stops during a save
\* leaves the old or the new content.
C16_FilesReplacedAtomically ==
    /\ disk.vectorIndex # Truncated
    /\ goroutines.Initialize # "writeState" => disk.stateFile # Truncated

\* the documents of a set of pages
DocumentsOf(pages) == UNION {processMANPage(page) : page \in pages}

ReturnedOriginal == last.outcome.prompt = last.outcome.original

\* C18: when the indexing run ends, by completion or by timeout, with no page
\* indexed, Initialize leaves IsInitialized false and goes on to save the
\* state and return; IsInitialized then stays false for as long as the
\* process runs and no new Initialize is started, and every EnhancePrompt
\* call made while it is false returns the original prompt.
C18_NoPagesDisablesEnrichment ==
    [][/\ (/\ goroutines.Initialize = "indexing"
           /\ goroutines'.Initialize # "indexing"
           /\ goroutines'.main = "running"
           /\ indexer.indexed = {})
              => (~rs'.initialized /\ goroutines'.Initialize = "saveState")
       /\ (/\ goroutines.Initialize \in {"saveState", "writeState", "returned"}
           /\ ~rs.initialized
           /\ goroutines'.Initialize # "start")
              => ~rs'.initialized
       /\ (last'.op = "EnhancePrompt" /\ ~rs'.initialized)
              => last'.outcome.prompt = last'.outcome.original]_vars

\* the budget ended before the first page; the indexer has since read both
\* pages, and a request naming ls and cp gets the original prompt
C18_Witness ==
    /\ last.op = "EnhancePrompt"
    /\ last.command = <<"l","s"," ","c","p"," ","m","v"," ","c","a","t">>
    /\ goroutines.Initialize = "returned"
    /\ indexer.indexed = {pageLs, pageCp}
    /\ vectorStore.documents = {}
    /\ ~rs.initialized
    /\ Readable(disk.stateFile)
    /\ ~DataOf(disk.stateFile).Initialized
    /\ ReturnedOriginal

\* C19: EnhancePrompt returns exactly the prompt it was given whenever the
\* system is not initialised, the request is blank or retrieval yields no
\* command; and BuildCommandPrompt, when its builder has no RAGSystem or the
\* system is not initialised, returns the base command prompt.
C19_UnenrichedPromptIsOriginal ==
    /\ (/\ last.op = "EnhancePrompt"
        /\ \/ ~rs.initialized
           \/ TrimSpace(last.command) = <<>>
           \/ last.outcome.commands = <<>>)
           => ReturnedOriginal
    /\ (/\ last.op = "BuildCommandPrompt"
        /\ ~last.outcome.hasRag \/ ~rs.initialized)
           => last.outcome.prompt = buildOriginalCommandPrompt(last.command)

\* initialised on all four pages, and a request that matches none of them
C19_Witness ==
    /\ last.op = "EnhancePrompt"
    /\ last.command = <<"z","i","p"," ","i","t">>
    /\ rs.initialized
    /\ vectorStore.documents = DocumentsOf({pageLs, pageCp, pageMv, pageCat})
    /\ last.outcome.commands = <<>>
    /\ last.outcome.prompt = buildOriginalCommandPrompt(<<"z","i","p"," ","i","t">>)

\* the context a prompt was given: the text before "ORIGINAL PROMPT:"
RagSection(prompt) ==
    SubSeq(prompt, 1, IndexString(prompt, <<"O","R","I","G","I","N","A","L"," ","P","R","O","M","P","T",":">>) - 1)

\* the number of items a line lists after its label, 0 for another line
Listed(line, label, sep) ==
    IF HasPrefix(line, label) THEN CountString(line, sep) + 1 ELSE 0

\* C20: every prompt that EnhancePrompt has enriched holds at most 3 command
\* blocks, and each block lists at most 5 options and at most 2 examples.
C20_EnrichmentIsCapped ==
    (last.op = "EnhancePrompt" /\ ~ReturnedOriginal)
        => LET lines == Split(RagSection(last.outcome.prompt), "\n")
           IN  /\ CountString(RagSection(last.outcome.prompt), <<"C","O","M","M","A","N","D"," ">>) <= 3
               /\ \A i \in 1..Len(lines) :
                      /\ Listed(lines[i], <<"C","o","m","m","o","n"," ","O","p","t","i","o","n","s",":"," ">>, <<","," ">>) <= 5
                      /\ Listed(lines[i], <<"E","x","a","m","p","l","e","s",":"," ">>, <<" ","|"," ">>) <= 2

(***************************************************************************)
(* Retrieval and the vector store's search.                                *)
(***************************************************************************)
\* C21: no command in the result of Retrieve violates the relevance filter:
\* a command named git-* appears only if the query contains "git", one
\* starting with kubectl only if it contains "kube", killall or rm only if it
\* contains "kill" or "remove", and no entry has a description shorter than
\* 10 characters; also for commands found because the query names them.
C21_RetrievedPassFilter ==
    last.op = "Retrieve"
        => \A i \in 1..Len(last.outcome.commands) :
               LET cmd == last.outcome.commands[i]
                   name == ToLower(cmd.Name)
                   query == ToLower(last.command)
               IN  /\ HasPrefix(name, <<"g","i","t","-">>) => Contains(query, <<"g","i","t">>)
                   /\ HasPrefix(name, <<"k","u","b","e","c","t","l">>) => Contains(query, <<"k","u","b","e">>)
                   /\ name \in { <<"k","i","l","l","a","l","l">>, <<"r","m">> }
                          => (Contains(query, <<"k","i","l","l">>) \/ Contains(query, <<"r","e","m","o","v","e">>))
                   /\ Len(cmd.Description) >= 10

\* the store that saved the vector index file
SavingStore == [initialized |-> TRUE, documents |-> DataOf(disk.vectorIndex)]

\* C22: index round-trip: after the store has saved its documents and a fresh
\* store has loaded them, Search(q, k) on the loaded store returns the same
\* documents in the same order as Search(q, k) on the saving store, for every
\* q and k, also when several documents have equal scores.
C22_RoundTripKeepsRanking ==
    (last.op = "Search" /\ OrphanIndexLoaded /\ Readable(disk.vectorIndex))
        => \A found \in Search(SavingStore, last.command, last.outcome.limit) :
               found.docs = last.outcome.docs

\* C23: ranking is deterministic: two Search calls with equal queries and the
\* same k on the same store contents return the same ordered list of scores.
C23_RankingIsDeterministic ==
    last.op = "Search"
        => \A found \in Search(vectorStore, last.command, last.outcome.limit) :
               found.scores = last.outcome.scores

\* a search for "rm files" cut at three results: the two documents that hold
\* "files" lead, and another call can return other documents behind them
C23_Witness ==
    /\ last.op = "Search"
    /\ last.command = <<"r","m"," ","f","i","l","e","s">>
    /\ last.outcome.limit = 3
    /\ vectorStore.documents = DocumentsOf({pageRm, pageXcmd})
    /\ Len(last.outcome.scores) = 3
    /\ last.outcome.scores[1] = last.outcome.scores[2]
    /\ last.outcome.scores[2] > last.outcome.scores[3]
    /\ \E found \in Search(vectorStore, last.command, 3) : found.docs # last.outcome.docs

\* C24: GetCommandInfo on an initialised store either fails with not-found or
\* returns a record whose description is non-empty, whatever documents the
\* store holds, those of a page indexed with an empty description included.
C24_InfoHasDescription ==
    (last.op = "GetCommandInfo" /\ vectorStore.initialized)
        => \/ last.outcome.err # Nil /\ last.outcome.info = {}
           \/ /\ last.outcome.err = Nil
              /\ last.outcome.info # {}
              /\ \A info \in last.outcome.info : info.Description # <<>>

\* the store holds the command document of xcmd, whose description is empty,
\* and GetCommandInfo("xcmd") fails
C24_Witness ==
    /\ last.op = "GetCommandInfo"
    /\ last.command = <<"x","c","m","d">>
    /\ vectorStore.initialized
    /\ createCommandDocument(pageXcmd) \in vectorStore.documents
    /\ createCommandDocument(pageXcmd).Metadata.Description = <<>>
    /\ last.outcome.err # Nil

\* C25: scenario S3: for the model output "find . -name '.go'" (with the
\* quotes around it), extraction followed by the repair pass yields exactly
\* find . -name '*.go', and hasSyntaxErrors reports no error on the repaired
\* command.
C25_S3IsRepaired ==
    (last.op = "handleCmdCommand" /\ last.command = <<"\"","f","i","n","d"," ","."," ","-","n","a","m","e"," ","'",".","g","o","'","\"">>)
        => /\ last.outcome.fixed = <<"f","i","n","d"," ","."," ","-","n","a","m","e"," ","'","*",".","g","o","'">>
           /\ ~hasSyntaxErrors(last.outcome.fixed)

\* C26: the repair pass is idempotent: attemptCommandFix applied to its own
\* result returns that result, and a command that is already repaired, such
\* as find . -name '*.go', is returned unchanged.
C26_RepairIsIdempotent ==
    last.op = "attemptCommandFix"
        => /\ last.outcome.again = last.outcome.fixed
           /\ last.command = <<"f","i","n","d"," ","."," ","-","n","a","m","e"," ","'","*",".","g","o","'">> => last.outcome.fixed = last.command

\* C27: in the /cmd pipeline, when the command is still invalid after repair
\* (ValidateAndCleanCommand fails, also after the quote-repair retry) and the
\* user declines the manual edit, enters an empty edit, or enters an edit
\* that fails validation, the handler returns without calling the sandbox or
\* the executor: nothing is executed.
C27_InvalidCommandAborts ==
    (/\ last.op = "handleCmdCommand"
     /\ last.outcome.validation # Nil
     /\ Len(last.outcome.prompts) >= 1
     /\ last.outcome.prompts[1][1] = "edit"
     /\ \/ ~AskForConfirmation(last.outcome.prompts[1][2])
        \/ /\ Len(last.outcome.prompts) >= 2
           /\ last.outcome.prompts[2][1] = "editor"
           /\ \/ TrimSpace(last.outcome.prompts[2][2]) = <<>>
              \/ ValidateAndCleanCommand(TrimSpace(last.outcome.prompts[2][2])).err # Nil)
        => /\ ~last.outcome.wrapped
           /\ ~last.called
           /\ last.outcome.spawned = <<>>

\* the model answered find . -name '*.go', which the validation rejects for
\* its quotes; the user chose to edit it and typed rm -rf /, which the
\* validation rejects too
C27_Witness ==
    /\ last.op = "handleCmdCommand"
    /\ last.command = <<"f","i","n","d"," ","."," ","-","n","a","m","e"," ","'","*",".","g","o","'">>
    /\ last.outcome.validation = UnmatchedQuotes
    /\ Len(last.outcome.prompts) = 2
    /\ AskForConfirmation(last.outcome.prompts[1][2])
    /\ last.outcome.prompts[2] = <<"editor", <<"r","m"," ","-","r","f"," ","/">>>>
    /\ ValidateAndCleanCommand(<<"r","m"," ","-","r","f"," ","/">>).err # Nil
    /\ ~last.outcome.wrapped

C29_SpawnedIsValidated ==
    (last.op = "handleCmdCommand" /\ last.outcome.spawned # <<>>)
        => /\ last.outcome.validated # <<>>
           /\ last.outcome.spawned = <<last.outcome.validated>>
           /\ ValidateCommand(last.outcome.validated) = Nil
           /\ last.verdict.valid
           /\ last.config.SafeMode => IsCommandSafe(last.outcome.validated)
           /\ \E i \in 1..Len(last.outcome.prompts) :
                  /\ last.outcome.prompts[i][1] = "execute"
                  /\ AskForConfirmation(last.outcome.prompts[i][2])

\* C30: an indexing run of the manual-page indexer always terminates, given
\* that every man call returns and the goroutines are scheduled fairly: once
\* discovery has finished and closed the name channel, each of the 6 workers
\* exits, the result channel is closed exactly once and only after the last
\* worker has exited, and IndexAvailableManPages returns; no interleaving of
\* discovery, workers and the collector is stuck on the two bounded channels.
C30_IndexingTerminates ==
    /\ [](run.resultCloses <= 1)
    /\ [](run.resultCloses = 1 => run.workers.returned = workerCount)
    /\ run.pageClosed ~> (run.workers.returned = workerCount)
    /\ (run.workers.returned = workerCount) ~> (run.resultCloses = 1)
    /\ (run.at = "range") ~> (run.at = "returned" /\ run.resultCloses = 1)

\* a run that has returned after nine names were sent and every man call
\* succeeded: nine pages went from the six workers to the map through a
\* channel with room for fewer, and all the workers have returned
C30_Witness ==
    /\ run.at = "returned"
    /\ run.err = Nil
    /\ run.pageClosed
    /\ run.workers.returned = workerCount
    /\ run.resultCloses = 1
    /\ run.processed = 9
    /\ run.processed > chanCapacity
    /\ indexer.indexed = {pageLs, pageCp, pageMv, pageCat, pageRm}
    /\ goroutines.indexer = "done"

(***************************************************************************)
(* The indexing run and its timer.                                         *)
(***************************************************************************)
\* Initialize has left its select by the timeout branch: it has gone on
\* while the goroutine it started for the indexer has not sent on done
TookTimeoutBranch ==
    /\ goroutines.main = "running"
    /\ goroutines.indexer = "running"
    /\ goroutines.Initialize \in {"saveState", "writeTemp", "rename", "writeState", "returned"}

\* C31: the indexing run is bounded by its timer: once the time budget has
\* expired and Initialize has taken the timeout branch, the run is cancelled,
\* and no further manual page is processed by a worker or added to the
\* indexer's page set.
C31_TimeoutStopsIndexer ==
    [][TookTimeoutBranch => indexer'.indexed \subseteq indexer.indexed]_vars

\* C32: discovery is de-duplicated: within one indexing run each command
\* name is handed to the workers at most once, also when both methods of
\* discovery (keyword lookup and directory scan) find the same name, so no
\* manual page is fetched and parsed twice.
C32_NamesHandedOnce ==
    \A i, j \in 1..Len(run.handed) : i # j => run.handed[i] # run.handed[j]

(***************************************************************************)
(* The order of Search's results.                                          *)
(***************************************************************************)
\* C34: Search returns its results sorted by score in descending order and
\* truncated to k, and documents with equal scores appear in the order in
\* which they were inserted into the store: the order of the result is
\* settled by the store's contents, so that no other call of Search with the
\* query and k on the unchanged store returns the documents in another order.
C34_SortedCutAndTiesInOrder ==
    (last.op = "Search" /\ last.outcome.err = Nil)
        => /\ Len(last.outcome.docs) <= last.outcome.limit
           /\ \A i \in 1..(Len(last.outcome.scores) - 1) :
                  last.outcome.scores[i] >= last.outcome.scores[i + 1]
           /\ \A found \in Search(vectorStore, last.command, last.outcome.limit) :
                  found.docs = last.outcome.docs

(***************************************************************************)
(* The sandbox and the working directory.                                  *)
(***************************************************************************)
\* C35: whenever the sandbox mode is CurrentDir or Strict, the working
\* directory of the process is the allowed directory, after any sequence of
\* SetMode, ChangeDirectory and ResetToOriginal calls, those that change
\* directory while the mode is Disabled and then enable the sandbox again
\* included.
C35_WorkingDirIsAllowedDir ==
    sandbox.mode # "SandboxDisabled" => cwd = sandbox.allowedDir

ProducedNames(r) ==
    SelectSeq(r.handed, LAMBDA command :
                            /\ isUsefulCommand(command)
                            /\ \E page \in disk.manPages : page.Name = command)

\* the pages the workers have produced
Produced(r) ==
    {page \in disk.manPages :
         \E i \in 1..Len(ProducedNames(r)) : ProducedNames(r)[i] = page.Name}

\* C38: no indexed page is lost in the worker pool: during the run every
\* page a worker has produced is held by a worker, is in resultChan or is in
\* the indexer's page set; when IndexAvailableManPages returns, the page set
\* holds every page produced, one page for each name, and the call has
\* taken from resultChan as many pages as the workers produced, for every
\* interleaving of the workers and the collector; a name whose page cannot
\* be made removes nothing and does not stop the other pages.
C38_NoPageLost ==
    (run.at \in {"range", "returned"} /\ run.err = Nil)
        => /\ \A page \in Produced(run) :
                  \/ page \in indexer.indexed
                  \/ \E i \in 1..Len(run.resultChan) : run.resultChan[i] = page
                  \/ run.workers.sending[page] > 0
           /\ \A p, q \in indexer.indexed : p.Name = q.Name => p = q
           /\ run.at = "returned"
                  => /\ Produced(run) \subseteq indexer.indexed
                     /\ run.processed = Len(ProducedNames(run))

\* the run has returned after the workers received ls, xcmd, cp, zip, cp and
\* ls: xcmd is not a useful command and zip has no manual page, and the
\* pages of ls and cp, each produced twice, are in the page set
C38_Witness ==
    /\ run.at = "returned"
    /\ run.err = Nil
    /\ run.handed = << <<"l","s">>, <<"x","c","m","d">>, <<"c","p">>, <<"z","i","p">>, <<"c","p">>, <<"l","s">> >>
    /\ ProducedNames(run) = << <<"l","s">>, <<"c","p">>, <<"c","p">>, <<"l","s">> >>
    /\ run.processed = 4
    /\ indexer.indexed = {pageLs, pageCp}

(***************************************************************************)
(* A start after a run that left the retrieval unavailable.                *)
(***************************************************************************)
\* the state file an Initialize wrote that ended with no page indexed
RecordsUnavailable(d) ==
    /\ Readable(d.stateFile)
    /\ DataOf(d.stateFile).Version = indexVersion
    /\ ~DataOf(d.stateFile).Initialized
    /\ DataOf(d.stateFile).TotalPages = 0

\* C39: if an earlier run of the process ended with RAG unavailable (zero
\* pages indexed, state file saved with initialized=false), the next start of
\* the process launches a new indexing run and does not stay without RAG
\* for the whole session.
C39_UnavailableIsRetried ==
    [][(/\ goroutines.main = "stopped"
        /\ goroutines'.main = "running"
        /\ RecordsUnavailable(disk))
           => goroutines'.Initialize = "start"]_vars

(***************************************************************************)
(* ValidateAndCleanCommand on a command that is clean already.             *)
(***************************************************************************)
\* the command needs no cleaning: no space around it, no backtick, no **, no
\* quotes around it, balanced quotes, a single line, no malicious pattern
NeedsNoCleaning(command) ==
    /\ command # <<>>
    /\ TrimSpace(command) = command
    /\ ~Contains(command, <<Backtick>>)
    /\ ~Contains(command, <<"*","*">>)
    /\ ~(command[1] \in {"\"", "'"} /\ command[Len(command)] \in {"\"", "'"})
    /\ HasBalancedQuotes(command)
    /\ ~Contains(command, <<"\n">>)
    /\ ValidateCommand(command) = Nil

\* C40: ValidateAndCleanCommand returns unchanged every command that needs
\* no cleaning (no backtick, no **, no surrounding quotes, balanced quotes, a
\* single line, no malicious pattern); in particular it keeps every *
\* wildcard, so find . -name '*.go' comes out as find . -name '*.go'.
C40_CleanCommandUnchanged ==
    (last.op = "ValidateAndCleanCommand" /\ NeedsNoCleaning(last.command))
        => (last.outcome.err = Nil /\ last.outcome.cleaned = last.command)

(***************************************************************************)
(* Background indexing started twice.                                      *)
(***************************************************************************)
\* C37: at most one RAG initialisation/indexing run is active at any time:
\* starting background indexing (at start-up or by /rag-reindex) while an
\* earlier run is still in progress does not start a second concurrent run
\* on the same indexer and vector store.
C37_OneRunAtATime ==
    ~(/\ goroutines.Initialize \notin {"none", "returned"}
      /\ goroutines.second # "none")

\* the document map and the inverted index hold the same documents
SameDocuments(documents, ix) ==
    /\ \A doc \in documents : addToIndex(doc) \subseteq ix
    /\ \A entry \in ix : \E doc \in documents : doc.ID = entry[2]

\* C33: every change of the document map or of the inverted index is made
\* by a goroutine that holds the store's lock exclusively, and while a
\* reader holds the shared lock no document is in one of the two structures
\* and not in the other
C33_StoreIsThreadSafe ==
    /\ [](mu.readers > 0 => SameDocuments(vectorStore.documents, index))
    /\ [][(vectorStore'.documents # vectorStore.documents \/ index' # index)
              => mu.writer]_vars
====
